---------------------------- MODULE Spec2Model ----------------------------
(***************************************************************************)
(* SAP Implementation Factory: the execution planner (engine/planner.py)   *)
(* and the job executor (engine/executor.py) with the handler contract     *)
(* (plugins/base.py and the three built-in handlers) and the storage sink  *)
(* (storage.py).                                                           *)
(*                                                                         *)
(* Two specifications share the variables:                                 *)
(*   SpecPlan  create_plan followed by get_job_order on a drawn model      *)
(*   Spec      one JobExecutor.execute(run_id, plan, model) call           *)
(***************************************************************************)
EXTENDS Integers, Sequences, FiniteSets, TLC

(***************************************************************************)
(* Bounds of the drawn project models.                                     *)
(***************************************************************************)
MaxCust == 2
MaxMigr == 1
MaxTest == 1
MaxSteps == 1
MaxDocItems == 2
MaxUnits == 3

Systems == {"DEV", "QAS"}
Uuids == {"a3f1c9", "07be42"}

CUSTOMIZING == "customizing"
MIGRATION == "migration"
TESTING == "testing"
JobType == {CUSTOMIZING, MIGRATION, TESTING}

PENDING == "pending"
RUNNING == "running"
COMPLETED == "completed"
FAILED == "failed"
SKIPPED == "skipped"
JobStatus == {PENDING, RUNNING, COMPLETED, FAILED, SKIPPED}

CREATED == "created"
PLANNING == "planning"
EXECUTING == "executing"
RunStatus == {CREATED, PLANNING, EXECUTING, COMPLETED, FAILED}

None == "None"

\* the value of a variable that will hold an object (the model, the plan, a
\* summary) while there is no object yet: Python's None again, as a record so
\* that it compares with the object
Absent == [absent |-> TRUE]

(***************************************************************************)
(* Sequence helpers.                                                       *)
(***************************************************************************)
Range(s) == {s[k] : k \in DOMAIN s}

InSeq(x, s) == \E k \in DOMAIN s : s[k] = x

IndexOf(x, s) == CHOOSE k \in DOMAIN s : s[k] = x /\ \A m \in 1..(k - 1) : s[m] # x

\* list.remove(x): drops the first occurrence of x
RemoveFirst(s, x) ==
    LET k == IndexOf(x, s)
    IN  [m \in 1..(Len(s) - 1) |-> IF m < k THEN s[m] ELSE s[m + 1]]

(***************************************************************************)
(* The project model (models.py).  Ids are strings, written as sequences   *)
(* of characters; the parser guarantees that the ids of one phase are      *)
(* pairwise distinct, the ids of different phases may coincide.            *)
(***************************************************************************)
Digit(n) == ToString(n)

\* the id of the i-th declared item of a phase: A_1, A.1, A_2, A.2, ...
ItemId(i) == <<"A", IF i % 2 = 1 THEN "_" ELSE ".", Digit((i + 1) \div 2)>>

Items(n) == {it \in [1..n -> [id : {ItemId(i) : i \in 1..n}, target : Systems]] :
                \A i \in 1..n : it[i].id = ItemId(i)}

ImplementationModel ==
    UNION {[packages : Items(c), objects : Items(m), suites : Items(t)] :
             <<c, m, t>> \in (0..MaxCust) \X (0..MaxMigr) \X (0..MaxTest)}

(***************************************************************************)
(* ExecutionPlanner.create_plan.  us is the sequence of uuid4 draws, one   *)
(* per job, in emission order.                                             *)
(***************************************************************************)
\* create_customizing_jobs that walks the packages from the last to the first
create_customizing_jobsReversed(model, us) ==
    LET n == Len(model.packages)
        jid(i) == <<"cust", model.packages[n + 1 - i].id, us[i]>>
    IN  [i \in 1..n |->
           [id |-> jid(i),
            type |-> CUSTOMIZING,
            target_system |-> model.packages[n + 1 - i].target,
            config |-> [id |-> model.packages[n + 1 - i].id],
            dependencies |-> IF i = 1 THEN <<>> ELSE <<jid(i - 1)>>]]

create_customizing_jobs(model, us) ==
    LET jid(i) == <<"cust", model.packages[i].id, us[i]>>
    IN  [i \in 1..Len(model.packages) |->
           [id |-> jid(i),
            type |-> CUSTOMIZING,
            target_system |-> model.packages[i].target,
            config |-> [id |-> model.packages[i].id],
            dependencies |-> IF i = 1 THEN <<>> ELSE <<jid(i - 1)>>]]

\* create_migration_jobs that depends on the last customizing job only
create_migration_jobsLastOnly(model, dependencies, us) ==
    [i \in 1..Len(model.objects) |->
       [id |-> <<"migr", model.objects[i].id, us[i]>>,
        type |-> MIGRATION,
        target_system |-> model.objects[i].target,
        config |-> [id |-> model.objects[i].id],
        dependencies |-> IF dependencies = <<>> THEN <<>>
                         ELSE <<dependencies[Len(dependencies)]>>]]

create_migration_jobs(model, dependencies, us) ==
    [i \in 1..Len(model.objects) |->
       [id |-> <<"migr", model.objects[i].id, us[i]>>,
        type |-> MIGRATION,
        target_system |-> model.objects[i].target,
        config |-> [id |-> model.objects[i].id],
        dependencies |-> dependencies]]

\* create_testing_jobs that emits no job when there is nothing to wait for
create_testing_jobsGated(model, dependencies, us) ==
    [i \in 1..(IF dependencies = <<>> THEN 0 ELSE Len(model.suites)) |->
       [id |-> <<"test", model.suites[i].id, us[i]>>,
        type |-> TESTING,
        target_system |-> model.suites[i].target,
        config |-> [id |-> model.suites[i].id],
        dependencies |-> dependencies]]

create_testing_jobs(model, dependencies, us) ==
    [i \in 1..Len(model.suites) |->
       [id |-> <<"test", model.suites[i].id, us[i]>>,
        type |-> TESTING,
        target_system |-> model.suites[i].target,
        config |-> [id |-> model.suites[i].id],
        dependencies |-> dependencies]]

JobCount(model) == Len(model.packages) + Len(model.objects) + Len(model.suites)

\* create_plan that puts the testing jobs in front of the jobs they depend on
create_planTestingFirst(model, us) ==
    LET nc == Len(model.packages)
        nm == Len(model.objects)
        nt == Len(model.suites)
        customizing_jobs == create_customizing_jobs(model, SubSeq(us, 1, nc))
        customizing_ids == [i \in 1..nc |-> customizing_jobs[i].id]
        migration_jobs ==
            create_migration_jobs(model, customizing_ids, SubSeq(us, nc + 1, nc + nm))
        migration_ids == [i \in 1..nm |-> migration_jobs[i].id]
        testing_jobs ==
            create_testing_jobs(model, migration_ids,
                                SubSeq(us, nc + nm + 1, nc + nm + nt))
        jobs == testing_jobs \o customizing_jobs \o migration_jobs
    IN  [jobs |-> jobs, total_jobs |-> Len(jobs)]

create_plan(model, us) ==
    LET nc == Len(model.packages)
        nm == Len(model.objects)
        nt == Len(model.suites)
        customizing_jobs == create_customizing_jobs(model, SubSeq(us, 1, nc))
        customizing_ids == [i \in 1..nc |-> customizing_jobs[i].id]
        migration_jobs ==
            create_migration_jobs(model, customizing_ids, SubSeq(us, nc + 1, nc + nm))
        migration_ids == [i \in 1..nm |-> migration_jobs[i].id]
        testing_jobs ==
            create_testing_jobs(model, migration_ids,
                                SubSeq(us, nc + nm + 1, nc + nm + nt))
        jobs == customizing_jobs \o migration_jobs \o testing_jobs
    IN  [jobs |-> jobs, total_jobs |-> Len(jobs)]

(***************************************************************************)
(* ExecutionPlanner.get_job_order: Kahn's algorithm over a dict that maps  *)
(* job id to its list of outstanding dependencies.  The dict is a sequence *)
(* of <<key, value>> entries in insertion order.                           *)
(***************************************************************************)
DictKeys(d) == [k \in DOMAIN d |-> d[k][1]]

DictSet(d, key, val) ==
    IF InSeq(key, DictKeys(d))
    THEN [k \in DOMAIN d |-> IF d[k][1] = key THEN <<key, val>> ELSE d[k]]
    ELSE Append(d, <<key, val>>)

RECURSIVE BuildJobDeps(_, _, _)
BuildJobDeps(jobs, k, d) ==
    IF k > Len(jobs) THEN d
    ELSE BuildJobDeps(jobs, k + 1, DictSet(d, jobs[k].id, jobs[k].dependencies))

\* the inner for loop of one round: job_id has just been appended to result
RECURSIVE RemoveFromDeps(_, _, _, _, _)
RemoveFromDeps(d, k, job_id, result, available) ==
    IF k > Len(d) THEN [job_deps |-> d, available |-> available]
    ELSE LET jid == d[k][1]
             deps == d[k][2]
         IN  IF InSeq(job_id, deps)
             THEN LET deps2 == RemoveFirst(deps, job_id)
                      d2 == [d EXCEPT ![k] = <<jid, deps2>>]
                  IN  IF deps2 = <<>> /\ ~InSeq(jid, result) /\ ~InSeq(jid, available)
                      THEN RemoveFromDeps(d2, k + 1, job_id, result,
                                          Append(available, jid))
                      ELSE RemoveFromDeps(d2, k + 1, job_id, result, available)
             ELSE RemoveFromDeps(d, k + 1, job_id, result, available)

RECURSIVE KahnLoop(_, _, _)
KahnLoop(d, available, result) ==
    IF available = <<>> THEN result
    ELSE LET job_id == Head(available)
             result2 == Append(result, job_id)
             r == RemoveFromDeps(d, 1, job_id, result2, Tail(available))
         IN  KahnLoop(r.job_deps, r.available, result2)

\* InitiallyAvailable that keeps only the first job without dependencies
InitiallyAvailableFirstOnly(d) ==
    LET free == {k \in DOMAIN d : d[k][2] = <<>>}
    IN  IF free = {} THEN <<>>
        ELSE <<d[CHOOSE k \in free : \A m \in free : k <= m][1]>>

\* get_job_order, line 263: the jobs without dependencies, in dict order
InitiallyAvailable(d) ==
    LET F[k \in 0..Len(d)] ==
            IF k = 0 THEN <<>>
            ELSE IF d[k][2] = <<>> THEN Append(F[k - 1], d[k][1]) ELSE F[k - 1]
    IN  F[Len(d)]

get_job_order(p) ==
    LET job_deps == BuildJobDeps(p.jobs, 1, <<>>)
    IN  KahnLoop(job_deps, InitiallyAvailable(job_deps), <<>>)

(***************************************************************************)
(* The built-in handlers (plugins/customizing.py, migration.py,            *)
(* testing.py).  The part of a job's configuration payload that only the   *)
(* handler reads (the step list, the source type, the case list) is drawn  *)
(* when the handler reads it.                                              *)
(***************************************************************************)
SUPPORTED_ACTIONS == {"set_table", "call_bapi", "set_parameter", "execute_report"}
SUPPORTED_SOURCES == {"csv", "database", "legacy_sap", "excel"}
SUPPORTED_TYPES == {"api", "bapi", "process", "data", "integration"}

\* the values a drawn configuration takes
StepActions == {"set_table", "drop_table"}
SourceTypes == {"csv", "ftp"}
CaseTypes == {"api", "ui"}

SeqsUpTo(S, n) == UNION {[1..k -> S] : k \in 0..n}

\* one error per entry of units that is not supported; the entry index is 0-based
UnitErrors(units, supported, text) ==
    LET F[k \in 0..Len(units)] ==
            IF k = 0 THEN <<>>
            ELSE IF units[k] \notin supported
                 THEN Append(F[k - 1], <<text, k - 1, units[k]>>)
                 ELSE F[k - 1]
    IN  F[Len(units)]

\* model_dump() emits every field of a step, so the key-presence tests are false
CustomizingValidate(config) == UnitErrors(config.steps, SUPPORTED_ACTIONS, "Unknown action")

MigrationValidate(config) ==
    IF config.source \notin SUPPORTED_SOURCES
    THEN <<<<"Unknown source", config.source>>>>
    ELSE <<>>

TestingValidate(config) == UnitErrors(config.cases, SUPPORTED_TYPES, "Unknown type")

PluginValidate(type, config) ==
    CASE type = CUSTOMIZING -> CustomizingValidate(config)
      [] type = MIGRATION -> MigrationValidate(config)
      [] type = TESTING -> TestingValidate(config)

\* the drawn handler-side payloads of a job of the given category
HandlerConfigs(type, id) ==
    CASE type = CUSTOMIZING -> [id : {id}, steps : SeqsUpTo(StepActions, MaxSteps)]
      [] type = MIGRATION -> [id : {id}, source : SourceTypes]
      [] type = TESTING -> [id : {id}, cases : SeqsUpTo(CaseTypes, MaxSteps)]

\* the number of steps, source records or cases a handler works through;
\* _extract_source_data draws min(batch_size, randint(50, 200)) records,
\* scaled here to 0..MaxSteps
UnitCounts(type, config) ==
    CASE type = CUSTOMIZING -> {Len(config.steps)}
      [] type = MIGRATION -> 0..MaxSteps
      [] type = TESTING -> {Len(config.cases)}

JobResult(job_id, job_type, status, processed, success, failed_n, error_message) ==
    [job_id |-> job_id, job_type |-> job_type, status |-> status,
     records_processed |-> processed, records_success |-> success,
     records_failed |-> failed_n, error_message |-> error_message,
     artifacts |-> <<>>]

\* customizing and testing: COMPLETED unless every step (case) failed
AllOrPartialStatus(total, ok) ==
    IF total - ok = 0 THEN COMPLETED
    ELSE IF ok > 0 THEN COMPLETED
    ELSE FAILED

\* migration: load_result.success is records_failed == 0
MigrationStatus(total, loaded) ==
    IF total - loaded = 0 THEN COMPLETED
    ELSE IF loaded > 0 THEN COMPLETED
    ELSE FAILED

\* the result a handler's execute returns when total units were attempted
\* and ok of them succeeded
PluginExecute(type, config, total, ok) ==
    CASE type = CUSTOMIZING ->
            JobResult(<<"cust", config.id>>, CUSTOMIZING,
                      AllOrPartialStatus(total, ok), total, ok, total - ok, None)
      [] type = MIGRATION ->
            JobResult(<<"migr", config.id>>, MIGRATION,
                      MigrationStatus(total, ok), total, ok, total - ok, None)
      [] type = TESTING ->
            JobResult(<<"test", config.id>>, TESTING,
                      AllOrPartialStatus(total, ok), total, ok, total - ok, None)

\* the key a handler stores in context.shared_state before it returns
SharedKey(type, config) ==
    CASE type = CUSTOMIZING -> <<"customizing", config.id>>
      [] type = MIGRATION -> <<"migration", config.id>>
      [] type = TESTING -> <<"testing", config.id>>

\* PluginContext(...) as _execute_job builds it: shared_state is not passed,
\* so the dataclass default_factory supplies a new empty dict
PluginContext(run_id, system_id) ==
    [run_id |-> run_id, target_system |-> system_id, shared_state |-> {}]

(***************************************************************************)
(* StorageManager.save_job_result: the artifact path of a job result.      *)
(***************************************************************************)
AlnumChars == {"A", "B", "0", "1", "2", "3", "4", "5", "6", "7", "8", "9"}

safe_name(job_name) ==
    [k \in DOMAIN job_name |->
        IF job_name[k] \in AlnumChars \/ job_name[k] \in {"-", "_"}
        THEN job_name[k] ELSE "_"]

ArtifactPath(run_id, job_type, job_name) == <<run_id, job_type, safe_name(job_name)>>

(***************************************************************************)
(* State.                                                                  *)
(***************************************************************************)
VARIABLES
    model,              \* the ImplementationModel handed to planner and executor
    plan,               \* the ExecutionPlan of create_plan, None before it
    order,              \* the list returned by get_job_order, None before it
    pc,                 \* position of the running operation
    registry,           \* PluginRegistry: the job types with a registered handler
    adapter_type,       \* JobExecutor.adapter_type
    plugins,            \* JobExecutor._plugins
    adapters,           \* JobExecutor._adapters: system id -> adapter
    current_run,        \* JobExecutor._current_run
    progress_callback,  \* JobExecutor._progress_callback
    job_index,          \* execute: 1-based position of the next job of plan.jobs
    job_results,        \* execute: the local list job_results
    result_pos,         \* history: for each entry of job_results the job position
    completed,          \* execute: local counter
    failed,             \* execute: local counter
    skipped,            \* execute: local counter
    stop_execution,     \* execute: local flag
    summary,            \* execute: the RunSummary object
    files,              \* storage: artifact path -> job position whose result it holds
    stored_summary,     \* storage: the content of summary.json
    contexts,           \* history: the contexts handed to handler execute calls
    calls,              \* history: the handler, adapter, observer and storage calls
                        \* made for a job, each with the job position
    env_calls,          \* history: the adapter pool, summary and observer calls made
                        \* outside the job loop
    validated,          \* history: what each returning validate call returned
    raised,             \* the exception that escaped execute, None if none
    summary_writes,     \* history: the statuses written to summary.json, in order
    document,           \* the YAML document handed to the parser
    parse_result,       \* what ConfigParser.parse did with it, None before
    validate_result,    \* what ConfigParser.validate_only returned, None before
    reparse_result,     \* what a later call of ConfigParser.parse did with it
    stages,             \* history: the stages the last parse call ran, in order
    handler_job,        \* the job type and payload handed to a handler's execute
    handler_result,     \* what that execute call did, None before
    active_status,      \* main.py: active_runs[run_id]["status"], None without entry
    status_log          \* history: the statuses assigned to the entry, in order

vars == <<model, plan, order, pc, registry, adapter_type, plugins, adapters,
          current_run, progress_callback, job_index, job_results, result_pos,
          completed, failed, skipped, stop_execution, summary, files,
          stored_summary, contexts, calls, env_calls, validated, raised,
          summary_writes, document, parse_result, validate_result, reparse_result,
          stages,
          handler_job, handler_result,
          active_status, status_log>>

\* the parser's input and outputs
parseVars == <<document, parse_result, validate_result, reparse_result, stages>>

\* the input and the outcome of a direct call of a handler's execute
handlerVars == <<handler_job, handler_result>>

\* the run state main.py tracks in active_runs
runVars == <<active_status, status_log>>

execVars == <<registry, adapter_type, plugins, adapters, current_run,
              progress_callback, job_index, job_results, result_pos, completed,
              failed, skipped, stop_execution, summary, files, stored_summary,
              contexts, calls, env_calls, validated, raised, summary_writes>>

RunId == "run_1"

EmptyMap == [x \in {} |-> None]

\* the uuid4 draws of one create_plan call
UuidDraws(n) == [1..n -> Uuids]

\* JobExecutor.__init__ and an empty storage directory
ExecutorInit ==
    /\ plugins = EmptyMap
    /\ adapters = EmptyMap
    /\ current_run = None
    /\ progress_callback = None
    /\ job_index = 0
    /\ job_results = <<>>
    /\ result_pos = <<>>
    /\ completed = 0
    /\ failed = 0
    /\ skipped = 0
    /\ stop_execution = FALSE
    /\ summary = Absent
    /\ files = EmptyMap
    /\ stored_summary = Absent
    /\ contexts = <<>>
    /\ calls = {}
    /\ env_calls = {}
    /\ validated = {}
    /\ raised = None
    /\ summary_writes = <<>>

\* the value of parse_result and validate_result before the call
NotCalled == [exc |-> "not called"]

\* no document has been handed to the parser
ParserIdle ==
    /\ document = None
    /\ parse_result = NotCalled
    /\ validate_result = NotCalled
    /\ reparse_result = NotCalled
    /\ stages = <<>>

\* no handler has been called directly
HandlerIdle ==
    /\ handler_job = None
    /\ handler_result = NotCalled

\* main.py, line 87: active_runs has no entry for the run
RunIdle ==
    /\ active_status = None
    /\ status_log = <<>>

(***************************************************************************)
(* SpecPlan: create_plan, then get_job_order.                              *)
(***************************************************************************)
InitPlan ==
    /\ model \in ImplementationModel
    /\ plan = Absent
    /\ order = None
    /\ pc = "model"
    /\ registry = JobType
    /\ adapter_type = "fake"
    /\ ExecutorInit
    /\ ParserIdle
    /\ RunIdle
    /\ HandlerIdle

CreatePlan ==
    /\ pc = "model"
    /\ \E us \in UuidDraws(JobCount(model)) : plan' = create_plan(model, us)
    /\ pc' = "planned"
    /\ UNCHANGED <<model, order, execVars>>
    /\ UNCHANGED <<parseVars, handlerVars, runVars>>

GetJobOrder ==
    /\ pc = "planned"
    /\ order' = get_job_order(plan)
    /\ pc' = "ordered"
    /\ UNCHANGED <<model, plan, execVars>>
    /\ UNCHANGED <<parseVars, handlerVars, runVars>>

NextPlan == CreatePlan \/ GetJobOrder

SpecPlan == InitPlan /\ [][NextPlan]_vars

(***************************************************************************)
(* ConfigParser (engine/parser.py).  A document is described by what       *)
(* yaml.safe_load makes of it (kind), by the shape of its sections as      *)
(* _validate_structure sees them (structure), by what the pydantic model   *)
(* classes make of the section values (schema), and by the declared        *)
(* systems, packages, objects and suites.  Messages are tuples of their    *)
(* fixed text and the values put into it.                                  *)
(***************************************************************************)
DocKinds == {"syntax_error", "empty", "scalar", "mapping"}

StructureShapes ==
    {"ok", "project_absent", "project_scalar", "no_name", "no_name_no_customer",
     "systems_scalar", "packages_scalar", "objects_scalar", "suites_scalar"}

\* ok: every section value fits its model class; bad_field: a field fails
\* pydantic validation (a system without client, a batch_size that is no
\* number); section_not_mapping: an optional section is null or a list
SchemaShapes == {"ok", "bad_field", "section_not_mapping"}

DocIds == {ItemId(i) : i \in 1..Cardinality(Systems)}

DocItems(n) == SeqsUpTo([id : DocIds, target : Systems], n)

\* the declared content of a document: up to MaxDocItems packages, objects and
\* suites each, MaxDocItems + 1 of them in all
DocContents ==
    {c \in [systems : SeqsUpTo(Systems, Cardinality(Systems)),
            packages : DocItems(MaxDocItems), objects : DocItems(MaxDocItems),
            suites : DocItems(MaxDocItems)] :
        Len(c.packages) + Len(c.objects) + Len(c.suites) <= MaxDocItems + 1}

NoContent == [systems |-> <<>>, packages |-> <<>>, objects |-> <<>>, suites |-> <<>>]

Doc(kind, structure, schema, content) ==
    [kind |-> kind, structure |-> structure, schema |-> schema,
     systems |-> content.systems, packages |-> content.packages,
     objects |-> content.objects, suites |-> content.suites]

\* the documents handed to the parser: the three that are no mapping, every
\* content in well-shaped sections, and every misshapen combination around
\* the contents that declare no object and no suite
Documents ==
    {Doc(k, "ok", "ok", NoContent) : k \in DocKinds \ {"mapping"}}
    \cup {Doc("mapping", "ok", "ok", c) : c \in DocContents}
    \cup {Doc("mapping", st, sc, c) :
            st \in StructureShapes, sc \in SchemaShapes,
            c \in {x \in DocContents : x.objects = <<>> /\ x.suites = <<>>}}

ParserError(message, errors) ==
    [exc |-> "ParserError", message |-> message, errors |-> errors, model |-> None]

\* _parse_yaml, lines 101-122: ParserError is raised without an errors
\* argument, which __init__ (lines 30-33) turns into the empty list
parse_yaml(doc) ==
    CASE doc.kind = "syntax_error" -> ParserError("YAML syntax error", <<>>)
      [] doc.kind = "empty" -> ParserError("Empty configuration", <<>>)
      [] doc.kind = "scalar" ->
            ParserError("Configuration must be a YAML mapping/dictionary", <<>>)
      [] OTHER -> [exc |-> None, message |-> None, errors |-> <<>>, model |-> None]

\* _validate_structure, lines 124-195
validate_structure(doc) ==
    CASE doc.structure = "project_absent" -> <<<<"Missing required section", "project">>>>
      [] doc.structure = "project_scalar" -> <<<<"Section must be a mapping", "project">>>>
      [] doc.structure = "no_name" -> <<<<"project.name is required">>>>
      [] doc.structure = "no_name_no_customer" ->
            <<<<"project.name is required">>, <<"project.customer is required">>>>
      [] doc.structure = "systems_scalar" -> <<<<"landscape.systems must be a list">>>>
      [] doc.structure = "packages_scalar" -> <<<<"customizing.packages must be a list">>>>
      [] doc.structure = "objects_scalar" -> <<<<"migration.objects must be a list">>>>
      [] doc.structure = "suites_scalar" -> <<<<"testing.suites must be a list">>>>
      [] OTHER -> <<>>

\* _transform_to_model, lines 197-217, with the except clause of parse, lines
\* 82-86: a pydantic ValidationError becomes a ParserError with one message
\* per error; the TypeError of Config(**value) for a value that is no mapping
\* is not caught
transform_to_model(doc) ==
    CASE doc.schema = "bad_field" ->
            ParserError("Model validation failed", <<<<"loc", "msg">>>>)
      [] doc.schema = "section_not_mapping" ->
            [exc |-> "TypeError", message |-> "argument after ** must be a mapping",
             errors |-> <<>>, model |-> None]
      [] OTHER ->
            [exc |-> None, message |-> None, errors |-> <<>>,
             model |-> [systems |-> doc.systems, packages |-> doc.packages,
                        objects |-> doc.objects, suites |-> doc.suites]]

\* one message per item of items whose target is no declared system
UnknownTargets(items, system_ids, text) ==
    LET F[k \in 0..Len(items)] ==
            IF k = 0 THEN <<>>
            ELSE IF items[k].target \notin system_ids
                 THEN Append(F[k - 1], <<text, items[k].id, items[k].target>>)
                 ELSE F[k - 1]
    IN  F[Len(items)]

\* a duplicate test that compares whole items, not their ids
HasDuplicateIdsWholeItem(items) == Cardinality(Range(items)) # Len(items)

\* lines 255-266: len(ids) != len(set(ids))
HasDuplicateIds(items) == Cardinality({items[k].id : k \in DOMAIN items}) # Len(items)

\* _validate_semantics that checks the targets against an empty landscape too
validate_semanticsAlways(m) ==
    LET system_ids == Range(m.systems)
        refs == UnknownTargets(m.packages, system_ids,
                               "Customizing package references unknown system")
                \o UnknownTargets(m.objects, system_ids,
                                  "Migration object references unknown system")
                \o UnknownTargets(m.suites, system_ids,
                                  "Test suite references unknown system")
    IN  refs
        \o (IF HasDuplicateIds(m.packages)
            THEN <<<<"Duplicate customizing package IDs found">>>> ELSE <<>>)
        \o (IF HasDuplicateIds(m.objects)
            THEN <<<<"Duplicate migration object IDs found">>>> ELSE <<>>)
        \o (IF HasDuplicateIds(m.suites)
            THEN <<<<"Duplicate test suite IDs found">>>> ELSE <<>>)

\* _validate_semantics, lines 219-268
validate_semantics(m) ==
    LET system_ids == Range(m.systems)
        refs == IF system_ids = {} THEN <<>>
                ELSE UnknownTargets(m.packages, system_ids,
                                    "Customizing package references unknown system")
                     \o UnknownTargets(m.objects, system_ids,
                                       "Migration object references unknown system")
                     \o UnknownTargets(m.suites, system_ids,
                                       "Test suite references unknown system")
    IN  refs
        \o (IF HasDuplicateIds(m.packages)
            THEN <<<<"Duplicate customizing package IDs found">>>> ELSE <<>>)
        \o (IF HasDuplicateIds(m.objects)
            THEN <<<<"Duplicate migration object IDs found">>>> ELSE <<>>)
        \o (IF HasDuplicateIds(m.suites)
            THEN <<<<"Duplicate test suite IDs found">>>> ELSE <<>>)

\* parse that goes on to the later stages after structure errors and reports
\* the errors of all of them
parseCollecting(doc) ==
    IF parse_yaml(doc).exc # None THEN parse_yaml(doc)
    ELSE LET t == transform_to_model(doc)
         IN  IF validate_structure(doc) # <<>>
             THEN ParserError("Configuration validation failed",
                              validate_structure(doc)
                              \o (IF t.exc = None THEN validate_semantics(t.model)
                                  ELSE t.errors))
             ELSE IF t.exc # None THEN t
             ELSE IF validate_semantics(t.model) # <<>>
             THEN ParserError("Semantic validation failed", validate_semantics(t.model))
             ELSE t

\* ConfigParser.parse, lines 57-99
parse(doc) ==
    IF parse_yaml(doc).exc # None THEN parse_yaml(doc)
    ELSE IF validate_structure(doc) # <<>>
    THEN ParserError("Configuration validation failed", validate_structure(doc))
    ELSE LET t == transform_to_model(doc)
         IN  IF t.exc # None THEN t
             ELSE IF validate_semantics(t.model) # <<>>
             THEN ParserError("Semantic validation failed", validate_semantics(t.model))
             ELSE t

\* the stages of parse, lines 70-89, in the order of their calls
STAGES == <<"syntax", "structure", "schema", "semantic">>

StageCall(stage, has_failed, errors) ==
    [stage |-> stage, failed |-> has_failed, errors |-> errors]

\* the calls parse makes to _parse_yaml, _validate_structure,
\* _transform_to_model and _validate_semantics, each with what it reported
parse_stages(doc) ==
    LET y == parse_yaml(doc)
        s1 == <<StageCall("syntax", y.exc # None, y.errors)>>
    IN  IF y.exc # None THEN s1
        ELSE LET v == validate_structure(doc)
                 s2 == Append(s1, StageCall("structure", v # <<>>, v))
             IN  IF v # <<>> THEN s2
                 ELSE LET t == transform_to_model(doc)
                          s3 == Append(s2, StageCall("schema", t.exc # None, t.errors))
                      IN  IF t.exc # None THEN s3
                          ELSE LET e == validate_semantics(t.model)
                               IN  Append(s3, StageCall("semantic", e # <<>>, e))

\* validate_only that reports the message of the ParserError, not its errors
validate_onlyMessage(doc) ==
    LET r == parse(doc)
    IN  IF r.exc = None THEN [exc |-> None, is_valid |-> TRUE, errors |-> <<>>]
        ELSE IF r.exc = "ParserError"
        THEN [exc |-> None, is_valid |-> FALSE, errors |-> <<<<r.message>>>>]
        ELSE [exc |-> r.exc, is_valid |-> FALSE, errors |-> <<>>]

\* ConfigParser.validate_only, lines 291-305: only ParserError is caught
validate_only(doc) ==
    LET r == parse(doc)
    IN  IF r.exc = None THEN [exc |-> None, is_valid |-> TRUE, errors |-> <<>>]
        ELSE IF r.exc = "ParserError"
        THEN [exc |-> None, is_valid |-> FALSE, errors |-> r.errors]
        ELSE [exc |-> r.exc, is_valid |-> FALSE, errors |-> <<>>]

(***************************************************************************)
(* SpecParse: one document, parsed and validated.                          *)
(***************************************************************************)
InitParse ==
    /\ document \in Documents
    /\ parse_result = NotCalled
    /\ validate_result = NotCalled
    /\ reparse_result = NotCalled
    /\ stages = <<>>
    /\ model = Absent
    /\ plan = Absent
    /\ order = None
    /\ pc = "document"
    /\ registry = JobType
    /\ adapter_type = "fake"
    /\ ExecutorInit
    /\ RunIdle
    /\ HandlerIdle

Parse ==
    /\ pc = "document"
    /\ parse_result = NotCalled
    /\ parse_result' = parse(document)
    /\ stages' = parse_stages(document)
    /\ UNCHANGED <<model, plan, order, pc, registry, adapter_type, execVars,
                   document, validate_result, reparse_result, runVars, handlerVars>>

ValidateOnly ==
    /\ pc = "document"
    /\ validate_result = NotCalled
    /\ validate_result' = validate_only(document)
    /\ stages' = parse_stages(document)
    /\ UNCHANGED <<model, plan, order, pc, registry, adapter_type, execVars,
                   document, parse_result, reparse_result, runVars, handlerVars>>

\* the parser instances a later call can be made on: the one that made the
\* earlier calls, or a new ConfigParser()
ParserInstances == {"same", "new"}

\* what the calls made so far on the instance returned or raised, in order
EarlierCalls(instance) ==
    IF instance = "new" THEN <<>>
    ELSE <<parse_result>>
         \o (IF validate_result.exc = "not called" THEN <<>> ELSE <<validate_result>>)

\* parse on an instance that keeps the error list of its last failed call and
\* goes on appending to it
parse_afterKeepingErrors(earlier, doc) ==
    LET r == parse(doc)
        kept == IF earlier # <<>> /\ earlier[1].exc = "ParserError"
                THEN earlier[1].errors ELSE <<>>
    IN  IF r.exc = "ParserError" THEN ParserError(r.message, kept \o r.errors) ELSE r

\* ConfigParser.parse on an instance that has made the calls `earlier`: the
\* instance holds a logger and nothing else (lines 53-55), and every error
\* list is a local of the call (lines 85, 134, 229), so the earlier calls do
\* not enter the result
parse_after(earlier, doc) == parse(doc)

\* a later call of parse with the same document
Reparse ==
    /\ pc = "document"
    /\ parse_result # NotCalled
    /\ reparse_result = NotCalled
    /\ \E instance \in ParserInstances :
         reparse_result' = parse_after(EarlierCalls(instance), document)
    /\ UNCHANGED <<model, plan, order, pc, registry, adapter_type, execVars,
                   document, parse_result, validate_result, stages, runVars,
                   handlerVars>>

NextParse == Parse \/ ValidateOnly \/ Reparse

SpecParse == InitParse /\ [][NextParse]_vars

(***************************************************************************)
(* Spec: JobExecutor.execute(run_id, plan, model).                         *)
(***************************************************************************)
\* the adapter_type given to JobExecutor: the built-in fake adapter, an
\* adapter class registered through AdapterFactory.register, an unknown name
AdapterTypes == {"fake", "custom", "rfc"}

\* AdapterFactory._adapters
RegisteredAdapterTypes == {"fake", "custom"}

\* SAPAdapter.connect returns True if the connection is made, False otherwise.
\* The executor builds the fake adapter with the default failure_rate of 0.0,
\* for which _should_fail is never true.
ConnectOutcomes(type) == IF type = "fake" THEN {TRUE} ELSE BOOLEAN

\* FakeSAPAdapter.disconnect only clears a flag; another adapter's may raise
DisconnectOutcomes(type) == IF type = "fake" THEN {"return"} ELSE {"return", "raise"}

\* get_or_create_adapter that connects only adapters it finds unconnected
get_or_create_adapterLazy(pool, system_id, connected) ==
    IF system_id \in DOMAIN pool
    THEN pool
    ELSE [s \in DOMAIN pool \cup {system_id} |->
            IF s = system_id
            THEN [system_id |-> system_id, serial |-> 1, connects |-> 0,
                  connected |-> FALSE]
            ELSE pool[s]]

\* _get_or_create_adapter: the pool after the call.  serial tells the adapter
\* objects made for one system id apart, connects counts the connect() calls
\* on the object, connected is what its connect() returned.
get_or_create_adapter(pool, system_id, connected) ==
    IF system_id \in DOMAIN pool
    THEN pool
    ELSE [s \in DOMAIN pool \cup {system_id} |->
            IF s = system_id
            THEN [system_id |-> system_id, serial |-> 1, connects |-> 1,
                  connected |-> connected]
            ELSE pool[s]]

\* _execute_job, line 345: the adapter the context of a job carries
ContextAdapter(pool, system_id) == pool[system_id]

\* cleanup_disconnects that gives up at the first disconnect() that raises
cleanup_disconnectsUntilRaise(pool, failing) ==
    IF failing = {} THEN DOMAIN pool ELSE failing

\* _cleanup, lines 392-396: the adapters disconnect() is invoked on, failing
\* being those whose disconnect() raises
cleanup_disconnects(pool, failing) == DOMAIN pool

\* the plan handed to execute comes from create_plan; the executor never
\* reads the uuid part of a job id, so one draw stands for all of them here
ExecUuid == CHOOSE u \in Uuids : TRUE

Init ==
    /\ model \in ImplementationModel
    /\ plan = create_plan(model, [k \in 1..JobCount(model) |-> ExecUuid])
    /\ order = None
    /\ pc = "ready"
    /\ registry \in SUBSET JobType
    /\ adapter_type \in AdapterTypes
    /\ ExecutorInit
    /\ ParserIdle
    /\ RunIdle
    /\ HandlerIdle

Event(op, pos) == [op |-> op, pos |-> pos]

\* JobExecutor.set_progress_callback
SetProgressCallback ==
    /\ pc = "ready"
    /\ progress_callback = None
    /\ progress_callback' = "observer"
    /\ UNCHANGED <<model, plan, order, pc, registry, adapter_type, plugins, adapters,
                   current_run, job_index, job_results, result_pos, completed, failed,
                   skipped, stop_execution, summary, files, stored_summary, contexts,
                   calls, env_calls, validated, raised>>
    /\ UNCHANGED <<parseVars, handlerVars, runVars, summary_writes>>

\* main.py, lines 144-147: the callback execute_run_async installs only
\* assigns to the run's entry if there is one
MAIN_CALLBACK == "main.progress_callback"

\* _report_progress: nothing is called while no callback is set
ProgressOutcomes ==
    IF progress_callback = None THEN {"none"}
    ELSE IF progress_callback = MAIN_CALLBACK THEN {"return"}
    ELSE {"return", "raise"}

ProgressEvents(o, pos) == IF o = "none" THEN {} ELSE {Event("progress", pos)}

\* PluginRegistry.get_by_type
get_by_type(job_type) == IF job_type \in registry THEN job_type ELSE None

\* MissingPlugins that only looks at the first category
MissingPluginsFirstOnly(ps) == {t \in DOMAIN ps \cap {CUSTOMIZING} : ps[t] = None}

\* _initialize_plugins: the job types whose handler is missing
MissingPlugins(ps) == {t \in DOMAIN ps : ps[t] = None}

NewRunSummary(status, total_jobs) ==
    [status |-> status, total_jobs |-> total_jobs, completed_jobs |-> 0,
     failed_jobs |-> 0, skipped_jobs |-> 0, job_results |-> <<>>, artifacts |-> <<>>]

TargetSystems == {plan.jobs[k].target_system : k \in DOMAIN plan.jobs}

\* execute, lines 110-126: summary creation and _initialize_plugins
ExecuteBegin ==
    /\ pc = "ready"
    /\ current_run' = RunId
    /\ summary' = NewRunSummary(EXECUTING, plan.total_jobs)
    /\ plugins' = [t \in JobType |-> get_by_type(t)]
    /\ IF MissingPlugins(plugins') # {}
       THEN /\ raised' = "ExecutionError: Plugin not found"
            /\ pc' = "raised"
            /\ job_index' = job_index
       ELSE /\ raised' = raised
            /\ pc' = IF TargetSystems = {} THEN "loop" ELSE "adapters"
            /\ job_index' = 1
    /\ UNCHANGED <<model, plan, order, registry, adapter_type, adapters,
                   progress_callback, job_results, result_pos, completed, failed,
                   skipped, stop_execution, files, stored_summary, contexts, calls,
                   env_calls, validated>>
    /\ UNCHANGED <<parseVars, handlerVars, runVars, summary_writes>>

\* execute, lines 129-131: one _get_or_create_adapter call of the loop over
\* the set of target systems; connect()'s return value is not looked at
GetOrCreateAdapter ==
    /\ pc = "adapters"
    /\ \E system_id \in TargetSystems \ DOMAIN adapters,
          connected \in ConnectOutcomes(adapter_type) :
         IF adapter_type \notin RegisteredAdapterTypes
         THEN /\ raised' = "ValueError: Unknown adapter type"
              /\ pc' = "raised"
              /\ env_calls' = env_calls \cup {Event("create_adapter", system_id)}
              /\ adapters' = adapters
         ELSE /\ adapters' = get_or_create_adapter(adapters, system_id, connected)
              /\ env_calls' = env_calls \cup {Event("create_adapter", system_id),
                                               Event("connect", system_id)}
              /\ pc' = IF TargetSystems \subseteq DOMAIN adapters' THEN "loop" ELSE "adapters"
              /\ raised' = raised
    /\ UNCHANGED <<model, plan, order, registry, adapter_type, plugins, current_run,
                   progress_callback, job_index, job_results, result_pos, completed,
                   failed, skipped, stop_execution, summary, files, stored_summary,
                   contexts, calls, validated>>
    /\ UNCHANGED <<parseVars, handlerVars, runVars, summary_writes>>

(***************************************************************************)
(* The job loop of execute.                                                *)
(***************************************************************************)
SKIPPED_MESSAGE == "Skipped due to previous failure"

\* SkippedResult whose message depends on the type of the job
SkippedResultNamed(job) ==
    JobResult(job.id, job.type, SKIPPED, 0, 0, 0,
              IF job.type = TESTING THEN "Skipped testing job" ELSE SKIPPED_MESSAGE)

\* execute, lines 147-153
SkippedResult(job) == JobResult(job.id, job.type, SKIPPED, 0, 0, 0, SKIPPED_MESSAGE)

\* execute, lines 184-192: str(e) becomes the error message
ExceptionResult(job, e) == JobResult(job.id, job.type, FAILED, 0, 0, 0, e)

\* ValidationFailedResult that drops the validation errors from the message
ValidationFailedResultBare(job, validation_errors) ==
    JobResult(job.id, job.type, FAILED, 0, 0, 0, <<"Validation failed", <<>>>>)

\* _execute_job, lines 376-382: the message joins all validation errors
ValidationFailedResult(job, validation_errors) ==
    JobResult(job.id, job.type, FAILED, 0, 0, 0, <<"Validation failed", validation_errors>>)

\* what the handler does with one job: the payload it reads, whether validate
\* and execute return or raise, how many units execute attempts and how many
\* of them succeed
JobEnvs(job) ==
    LET configs == HandlerConfigs(job.type, job.config.id)
    IN  [config : configs, validate : {"raise"}, execute : {"return"}, total : {0}, ok : {0}]
        \cup
        UNION {UNION {[config : {c}, validate : {"return"}, execute : {"return", "raise"},
                       total : {n}, ok : 0..n] : n \in UnitCounts(job.type, c)} :
               c \in configs}

\* _execute_job: exc is the exception it raises (None if it returns), result
\* the JobResult it returns, events the calls it made, ctx the context the
\* handler's execute received together with the bag as execute left it
execute_job(job, pos, env) ==
    IF plugins[job.type] = None
    THEN [exc |-> None, events |-> {}, ctx |-> <<>>, validated |-> {},
          result |-> JobResult(job.id, job.type, FAILED, 0, 0, 0, "No plugin for job type")]
    ELSE IF job.target_system \notin DOMAIN adapters
    THEN [exc |-> None, events |-> {}, ctx |-> <<>>, validated |-> {},
          result |-> JobResult(job.id, job.type, FAILED, 0, 0, 0, "No adapter for system")]
    ELSE LET context == PluginContext(RunId, job.target_system)
             validation_errors == PluginValidate(job.type, env.config)
         IN  IF env.validate = "raise"
             THEN [exc |-> "validate raised",
                   events |-> {Event("validate", pos), Event("validate raised", pos)},
                   ctx |-> <<>>, validated |-> {}, result |-> None]
             ELSE IF validation_errors # <<>>
             THEN [exc |-> None, events |-> {Event("validate", pos)}, ctx |-> <<>>,
                   validated |-> {[pos |-> pos, errors |-> validation_errors]},
                   result |-> ValidationFailedResult(job, validation_errors)]
             ELSE IF env.execute = "raise"
             THEN [exc |-> "execute raised",
                   events |-> {Event("validate", pos), Event("execute", pos),
                               Event("adapter_call", pos), Event("execute raised", pos)},
                   validated |-> {[pos |-> pos, errors |-> validation_errors]},
                   ctx |-> <<[pos |-> pos, adapter |-> ContextAdapter(adapters, job.target_system),
                              shared_in |-> context.shared_state,
                              shared_out |-> context.shared_state]>>,
                   result |-> None]
             ELSE [exc |-> None,
                   validated |-> {[pos |-> pos, errors |-> validation_errors]},
                   events |-> {Event("validate", pos), Event("execute", pos)}
                              \cup (IF job.type = MIGRATION \/ env.total > 0
                                    THEN {Event("adapter_call", pos)} ELSE {}),
                   ctx |-> <<[pos |-> pos, adapter |-> ContextAdapter(adapters, job.target_system),
                              shared_in |-> context.shared_state,
                              shared_out |-> context.shared_state
                                             \cup {SharedKey(job.type, env.config)}]>>,
                   result |-> PluginExecute(job.type, env.config, env.total, env.ok)]

\* Tally without the fail-fast: a failed job does not set the stop flag
TallyKeepsGoing(status) ==
    IF status = COMPLETED
    THEN [completed |-> 1, failed |-> 0, stop |-> FALSE]
    ELSE [completed |-> 0, failed |-> 1, stop |-> FALSE]

\* execute, lines 174-180: the counters and the stop flag after a job result
Tally(status) ==
    IF status = COMPLETED
    THEN [completed |-> 1, failed |-> 0, stop |-> FALSE]
    ELSE [completed |-> 0, failed |-> 1, stop |-> TRUE]

\* ExceptTally that forgets to count the job as failed
ExceptTallyUncounted == [completed |-> 0, failed |-> 0, stop |-> TRUE]

\* ExceptTally that forgets to set the stop flag
ExceptTallyKeepsGoing == [completed |-> 0, failed |-> 1, stop |-> FALSE]

\* execute, lines 193-195: the counters and the stop flag in the except branch
ExceptTally == [completed |-> 0, failed |-> 1, stop |-> TRUE]

\* save_job_result either returns the path or raises without leaving a file
SaveOutcomes == {"return", "raise"}

\* execute, lines 161-195: the try/except around one job that is not skipped
TryJob(job, pos, env, save) ==
    LET r == execute_job(job, pos, env)
        path == ArtifactPath(RunId, job.type, job.config.id)
    IN  IF r.exc # None
        THEN [results |-> <<ExceptionResult(job, r.exc)>>, tally |-> ExceptTally,
              events |-> r.events, ctx |-> r.ctx, validated |-> r.validated,
              written |-> <<>>]
        ELSE IF save = "return"
        THEN [results |-> <<[r.result EXCEPT !.artifacts = Append(@, path)]>>,
              tally |-> Tally(r.result.status),
              events |-> r.events \cup {Event("save_job_result", pos)},
              ctx |-> r.ctx, validated |-> r.validated,
              written |-> <<[path |-> path, pos |-> pos]>>]
        ELSE [results |-> <<r.result, ExceptionResult(job, "save_job_result raised")>>,
              tally |-> ExceptTally,
              events |-> r.events \cup {Event("save_job_result", pos),
                                          Event("save_job_result raised", pos)},
              ctx |-> r.ctx, validated |-> r.validated,
              written |-> <<>>]

WriteFiles(fs, written) ==
    IF written = <<>> THEN fs
    ELSE [q \in DOMAIN fs \cup {written[1].path} |->
            IF q = written[1].path
            THEN written[1].pos
            ELSE fs[q]]

\* one iteration of the for loop of execute, lines 140-195
RunJob ==
    /\ pc = "loop"
    /\ job_index <= Len(plan.jobs)
    /\ LET job == plan.jobs[job_index]
       IN  \E o \in ProgressOutcomes :
           IF o = "raise"
           THEN /\ raised' = "progress callback raised"
                /\ pc' = "raised"
                /\ calls' = calls \cup ProgressEvents(o, job_index)
                /\ UNCHANGED <<job_index, job_results, result_pos, completed, failed,
                               skipped, stop_execution, files, contexts, validated>>
           ELSE IF stop_execution
           THEN /\ job_results' = Append(job_results, SkippedResult(job))
                /\ result_pos' = Append(result_pos, job_index)
                /\ skipped' = skipped + 1
                /\ job_index' = job_index + 1
                /\ calls' = calls \cup ProgressEvents(o, job_index)
                /\ UNCHANGED <<pc, raised, completed, failed, stop_execution, files,
                               contexts, validated>>
           ELSE \E env \in JobEnvs(job), save \in SaveOutcomes :
                LET t == TryJob(job, job_index, env, save)
                IN  /\ job_results' = job_results \o t.results
                    /\ result_pos' = result_pos \o [k \in DOMAIN t.results |-> job_index]
                    /\ completed' = completed + t.tally.completed
                    /\ failed' = failed + t.tally.failed
                    /\ stop_execution' = (stop_execution \/ t.tally.stop)
                    /\ files' = WriteFiles(files, t.written)
                    /\ contexts' = contexts \o t.ctx
                    /\ validated' = validated \cup t.validated
                    /\ calls' = calls \cup ProgressEvents(o, job_index) \cup t.events
                    /\ job_index' = job_index + 1
                    /\ UNCHANGED <<pc, raised, skipped>>
    /\ UNCHANGED <<model, plan, order, registry, adapter_type, plugins, adapters,
                   current_run, progress_callback, summary, stored_summary, env_calls>>
    /\ UNCHANGED <<parseVars, handlerVars, runVars, summary_writes>>

(***************************************************************************)
(* After the loop: summary, persistence, cleanup.                          *)
(***************************************************************************)
\* FinalStatus with "or" in place of "and"
FinalStatusEither(failed_n, skipped_n) ==
    IF failed_n = 0 \/ skipped_n = 0 THEN COMPLETED ELSE FAILED

\* execute, lines 235-239
FinalStatus(failed_n, skipped_n) ==
    IF failed_n = 0 /\ skipped_n = 0 THEN COMPLETED ELSE FAILED

\* execute, lines 242-246
CollectArtifacts(results) ==
    LET F[k \in 0..Len(results)] ==
            IF k = 0 THEN <<>> ELSE F[k - 1] \o results[k].artifacts
    IN  F[Len(results)]

\* execute, lines 206-246
FinalSummary ==
    [status |-> FinalStatus(failed, skipped),
     total_jobs |-> summary.total_jobs,
     completed_jobs |-> completed,
     failed_jobs |-> failed,
     skipped_jobs |-> skipped,
     job_results |-> job_results,
     artifacts |-> CollectArtifacts(job_results)]

\* execute, lines 248-255: save_summary writes summary.json of the run, and
\* save_artifact with subdir "" and filename "summary.json" writes that file
\* again; o tells which of the two calls raises, if any
SummaryWrites(o, status) ==
    IF o = "save_summary" THEN <<>>
    ELSE IF o = "save_artifact" THEN <<status>>
    ELSE <<status, status>>

\* execute, lines 197-268.  o tells which call raises, if any: save_summary,
\* save_artifact, the final progress report, or none of them.  _cleanup
\* swallows what disconnect() raises.
Finalize ==
    /\ pc = "loop"
    /\ job_index > Len(plan.jobs)
    /\ summary' = FinalSummary
    /\ \E o \in {"return", "save_summary", "save_artifact"}
                \cup (IF "raise" \in ProgressOutcomes THEN {"progress"} ELSE {}),
          failing \in SUBSET {s \in DOMAIN adapters :
                                "raise" \in DisconnectOutcomes(adapter_type)} :
         /\ stored_summary' = IF o = "save_summary" THEN stored_summary ELSE summary'
         /\ summary_writes' = summary_writes \o SummaryWrites(o, summary'.status)
         /\ env_calls' = env_calls
                \cup {Event("save_summary", RunId)}
                \cup (IF o # "save_summary" THEN {Event("save_artifact", RunId)} ELSE {})
                \cup (IF o \in {"return", "progress"}
                      THEN ProgressEvents(IF progress_callback = None THEN "none" ELSE o,
                                          "Complete")
                      ELSE {})
                \cup (IF o = "return"
                      THEN {Event("disconnect", s) :
                                s \in cleanup_disconnects(adapters, failing)}
                           \cup {Event("disconnect raised", s) :
                                    s \in cleanup_disconnects(adapters, failing)
                                          \cap failing}
                      ELSE {})
         /\ IF o = "return"
            THEN /\ adapters' = EmptyMap
                 /\ current_run' = None
                 /\ pc' = "returned"
                 /\ raised' = raised
            ELSE /\ adapters' = adapters
                 /\ current_run' = current_run
                 /\ pc' = "raised"
                 /\ raised' = o \o " raised"
    /\ UNCHANGED <<model, plan, order, registry, adapter_type, plugins,
                   progress_callback, job_index, job_results, result_pos, completed,
                   failed, skipped, stop_execution, files, contexts, calls, validated>>
    /\ UNCHANGED <<parseVars, handlerVars, runVars>>

Next ==
    \/ SetProgressCallback
    \/ ExecuteBegin
    \/ GetOrCreateAdapter
    \/ RunJob
    \/ Finalize

Spec == Init /\ [][Next]_vars

(***************************************************************************)
(* SpecRun: the life of one run in main.py: the create_run request, the    *)
(* background task execute_run_async around JobExecutor.execute, and       *)
(* delete_run requests.  The task runs on the event loop and awaits only   *)
(* executor.execute, so a request is handled before the task starts, while *)
(* execute runs, or after the task has ended.                              *)
(***************************************************************************)
ModelContent(m) ==
    [systems |-> <<>>, packages |-> m.packages, objects |-> m.objects, suites |-> m.suites]

\* the target of an item that declares none (models.py, default="DEV")
DEFAULT_TARGET == "DEV"

\* the documents submitted with a request: the three that are no mapping,
\* two that parse rejects later, and a well-formed one for every model whose
\* items leave the target at its default
RunDocuments ==
    {Doc(k, "ok", "ok", NoContent) : k \in DocKinds \ {"mapping"}}
    \cup {Doc("mapping", "no_name", "ok", NoContent),
          Doc("mapping", "ok", "section_not_mapping", NoContent)}
    \cup {Doc("mapping", "ok", "ok", ModelContent(m)) :
            m \in {x \in ImplementationModel :
                      \A it \in Range(x.packages) \cup Range(x.objects)
                                 \cup Range(x.suites) : it.target = DEFAULT_TARGET}}

InitRun ==
    /\ document \in RunDocuments
    /\ parse_result = NotCalled
    /\ validate_result = NotCalled
    /\ reparse_result = NotCalled
    /\ stages = <<>>
    /\ model = Absent
    /\ plan = Absent
    /\ order = None
    /\ pc = "request"
    /\ registry = JobType
    /\ adapter_type = "fake"
    /\ ExecutorInit
    /\ RunIdle
    /\ HandlerIdle

\* create_run that makes the active_runs entry before it parses the document
request_outcomeRegisterFirst(r, dry_run) ==
    IF r.exc # None THEN [pc |-> "rejected", registered |-> TRUE]
    ELSE IF dry_run THEN [pc |-> "dry run", registered |-> FALSE]
    ELSE [pc |-> "scheduled", registered |-> TRUE]

\* create_run, lines 235-272: where the request ends for what parse did, and
\* whether the active_runs entry has been made by then
request_outcome(r, dry_run) ==
    IF r.exc # None THEN [pc |-> "rejected", registered |-> FALSE]
    ELSE IF dry_run THEN [pc |-> "dry run", registered |-> FALSE]
    ELSE [pc |-> "scheduled", registered |-> TRUE]

\* create_run, lines 216-288: the request is rejected when parse raises; a
\* dry run returns the plan and registers nothing
CreateRunRequest ==
    /\ pc = "request"
    /\ parse_result' = parse(document)
    /\ stages' = parse_stages(document)
    /\ \E dry_run \in BOOLEAN :
         LET o == request_outcome(parse_result', dry_run)
         IN  /\ pc' = o.pc
             /\ IF o.registered
                THEN /\ active_status' = CREATED
                     /\ status_log' = Append(status_log, CREATED)
                ELSE UNCHANGED runVars
             /\ IF o.pc = "dry run"
                THEN plan' = create_plan(parse_result'.model,
                                         [k \in 1..JobCount(parse_result'.model) |-> ExecUuid])
                ELSE plan' = plan
    /\ UNCHANGED <<model, order, registry, adapter_type, execVars, document,
                   validate_result, reparse_result, handlerVars>>

\* background_statuses that registers the run anew before planning
background_statusesRestart(o) ==
    IF o = "return" THEN <<CREATED, PLANNING, EXECUTING>> ELSE <<CREATED, PLANNING, FAILED>>

\* background_statuses whose except branch leaves the status as it is
background_statusesNoFail(o) ==
    IF o = "return" THEN <<PLANNING, EXECUTING>> ELSE <<PLANNING>>

\* execute_run_async, lines 113, 137 and 175: the statuses assigned up to the
\* call of executor.execute, o being "return" or the call that raises
background_statuses(o) ==
    IF o = "return" THEN <<PLANNING, EXECUTING>> ELSE <<PLANNING, FAILED>>

\* execute_run_async, lines 111-151 and 173-176.  Without an entry for the
\* run the first assignment raises KeyError, and so does the except branch.
BackgroundPlan ==
    /\ pc = "scheduled"
    /\ IF active_status = None
       THEN /\ pc' = "task failed"
            /\ UNCHANGED <<model, plan, progress_callback, stored_summary,
                           summary_writes, runVars>>
       ELSE \E o \in {"return", "create_run raised", "save_plan raised"} :
            LET statuses == background_statuses(o)
                m == parse(document).model
            IN  /\ status_log' = status_log \o statuses
                /\ active_status' = statuses[Len(statuses)]
                /\ IF o = "create_run raised"
                   THEN UNCHANGED <<summary_writes, stored_summary>>
                   ELSE /\ summary_writes' = Append(summary_writes, CREATED)
                        /\ stored_summary' = NewRunSummary(CREATED, 0)
                /\ IF o = "return"
                   THEN /\ model' = m
                        /\ plan' = create_plan(m, [k \in 1..JobCount(m) |-> ExecUuid])
                        /\ progress_callback' = MAIN_CALLBACK
                        /\ pc' = "ready"
                   ELSE /\ pc' = "done"
                        /\ UNCHANGED <<model, plan, progress_callback>>
    /\ UNCHANGED <<order, registry, adapter_type, plugins, adapters, current_run,
                   job_index, job_results, result_pos, completed, failed, skipped,
                   stop_execution, summary, files, contexts, calls, env_calls,
                   validated, raised, parseVars, handlerVars>>

\* execute_run_async, lines 159-165: executor.execute returned the summary
RunReturned ==
    /\ pc = "returned"
    /\ active_status # None
    /\ active_status' = summary.status
    /\ status_log' = Append(status_log, summary.status)
    /\ pc' = "done"
    /\ UNCHANGED <<model, plan, order, registry, adapter_type, execVars, parseVars, handlerVars>>

\* execute_run_async, lines 173-176: executor.execute raised
RunRaised ==
    /\ pc = "raised"
    /\ active_status # None
    /\ active_status' = FAILED
    /\ status_log' = Append(status_log, FAILED)
    /\ pc' = "done"
    /\ UNCHANGED <<model, plan, order, registry, adapter_type, execVars, parseVars, handlerVars>>

\* delete_run, lines 439-468, for a run that has an entry: refused with 409
\* while the status is EXECUTING, else the entry and the run directory go
DeleteRun ==
    /\ pc \in {"scheduled", "done"}
    /\ active_status \notin {None, EXECUTING}
    /\ active_status' = None
    /\ stored_summary' = Absent
    /\ files' = EmptyMap
    /\ UNCHANGED <<model, plan, order, pc, registry, adapter_type, plugins, adapters,
                   current_run, progress_callback, job_index, job_results, result_pos,
                   completed, failed, skipped, stop_execution, summary, contexts,
                   calls, env_calls, validated, raised, summary_writes, parseVars, handlerVars,
                   status_log>>

NextRun ==
    \/ CreateRunRequest
    \/ BackgroundPlan
    \/ ExecuteBegin
    \/ GetOrCreateAdapter
    \/ RunJob
    \/ Finalize
    \/ RunReturned
    \/ RunRaised
    \/ DeleteRun

SpecRun == InitRun /\ [][NextRun]_vars

\* The run without delete requests.  The event loop runs the scheduled task,
\* the thread pool runs executor.execute, and every call made on the way
\* returns or raises, so a step that is possible is eventually taken.
NextRunNoDelete ==
    \/ CreateRunRequest
    \/ BackgroundPlan
    \/ ExecuteBegin
    \/ GetOrCreateAdapter
    \/ RunJob
    \/ Finalize
    \/ RunReturned
    \/ RunRaised

SpecRunFair == InitRun /\ [][NextRunNoDelete]_vars /\ WF_vars(NextRunNoDelete)

(***************************************************************************)
(* SpecHandler: one direct call of the execute of a built-in handler       *)
(* (plugins/customizing.py, plugins/migration.py, plugins/testing.py),     *)
(* step by step.  The adapter is any SAPAdapter: each of its calls reports *)
(* success, reports failure, or raises.                                    *)
(***************************************************************************)
AdapterOutcomes == {"success", "failure", "raise"}

\* str(e) of the exception an adapter call raises
ExceptionTexts == {"", "Connection lost"}

\* config["batch_size"], and the draws of random.randint(50, 200)
BatchSizes == {0, 2, 1000}
RandintDraws == {50, 200}

HandlerReturn(result, shared, attempts) ==
    [exc |-> None, result |-> result, shared |-> shared, attempts |-> attempts]

\* round(n / d * 100, 2) in hundredths of a percent, ties to the even digit
RoundedPercent(n, d) ==
    LET q == (n * 10000) \div d
        r == (n * 10000) % d
    IN  IF 2 * r < d THEN q
        ELSE IF 2 * r > d THEN q + 1
        ELSE IF q % 2 = 0 THEN q ELSE q + 1

\* CustomizingPlugin._execute_step, lines 184-213: an action that is none of
\* the supported ones fails without an adapter call
execute_step(action, adapter) ==
    IF action \notin SUPPORTED_ACTIONS THEN "failure" ELSE adapter

\* the step loop that leaves the loop at the first step that raises
customizing_stepsAbortOnRaise(steps, adapter) ==
    LET F[k \in 0..Len(steps)] ==
            IF k = 0 THEN [ok |-> 0, failed |-> 0, attempts |-> <<>>]
            ELSE IF \E a \in Range(F[k - 1].attempts) : a.outcome = "raise"
            THEN F[k - 1]
            ELSE LET o == execute_step(steps[k], adapter[k])
                 IN  [ok |-> F[k - 1].ok + (IF o = "success" THEN 1 ELSE 0),
                      failed |-> F[k - 1].failed + (IF o = "success" THEN 0 ELSE 1),
                      attempts |-> Append(F[k - 1].attempts,
                                          [unit |-> k, kind |-> steps[k], outcome |-> o])]
    IN  F[Len(steps)]

\* CustomizingPlugin.execute, lines 100-137: the loop over the steps; a step
\* that reports failure and a step that raises both count as failed
customizing_steps(steps, adapter) ==
    LET F[k \in 0..Len(steps)] ==
            IF k = 0 THEN [ok |-> 0, failed |-> 0, attempts |-> <<>>]
            ELSE LET o == execute_step(steps[k], adapter[k])
                 IN  [ok |-> F[k - 1].ok + (IF o = "success" THEN 1 ELSE 0),
                      failed |-> F[k - 1].failed + (IF o = "success" THEN 0 ELSE 1),
                      attempts |-> Append(F[k - 1].attempts,
                                          [unit |-> k, kind |-> steps[k], outcome |-> o])]
    IN  F[Len(steps)]

\* lines 139-153 (customizing) and 136-150 (testing): the overall status
UnitsStatus(ok, failed_n) ==
    IF failed_n = 0 THEN COMPLETED
    ELSE IF ok > 0 THEN COMPLETED
    ELSE FAILED

\* CustomizingPlugin.execute, lines 72-182
customizing_execute(config, adapter) ==
    LET r == customizing_steps(config.steps, adapter)
        total_steps == Len(config.steps)
    IN  HandlerReturn(
            JobResult(<<"cust", config.id>>, CUSTOMIZING, UnitsStatus(r.ok, r.failed),
                      total_steps, r.ok, r.failed, None),
            [key |-> <<"customizing", config.id>>, success |-> r.failed = 0,
             steps_executed |-> total_steps],
            r.attempts)

\* TestingPlugin._execute_test_case, lines 173-201: a type that is none of the
\* supported ones fails without an adapter call
execute_test_case(type, adapter) ==
    IF type \notin SUPPORTED_TYPES THEN "failure" ELSE adapter

\* TestingPlugin.execute, lines 70-172
testing_execute(config, adapter) ==
    LET F[k \in 0..Len(config.cases)] ==
            IF k = 0 THEN [ok |-> 0, failed |-> 0, attempts |-> <<>>]
            ELSE LET o == execute_test_case(config.cases[k], adapter[k])
                 IN  [ok |-> F[k - 1].ok + (IF o = "success" THEN 1 ELSE 0),
                      failed |-> F[k - 1].failed + (IF o = "success" THEN 0 ELSE 1),
                      attempts |-> Append(F[k - 1].attempts,
                                          [unit |-> k, kind |-> config.cases[k], outcome |-> o])]
        r == F[Len(config.cases)]
        total_tests == Len(config.cases)
    IN  HandlerReturn(
            JobResult(<<"test", config.id>>, TESTING, UnitsStatus(r.ok, r.failed),
                      total_tests, r.ok, r.failed, None),
            [key |-> <<"testing", config.id>>, passed |-> r.ok, failed |-> r.failed,
             total |-> total_tests,
             pass_rate |-> IF total_tests > 0 THEN RoundedPercent(r.ok, total_tests) ELSE 0],
            r.attempts)

\* MigrationPlugin._extract_source_data, lines 184-218: the number of records
\* generated, range(sample_size) being empty for a sample_size below one
extract_source_data(config, draw) ==
    LET sample_size == IF config.batch_size < draw THEN config.batch_size ELSE draw
    IN  IF sample_size > 0 THEN sample_size ELSE 0

\* MigrationPlugin._generate_reconciliation, lines 373-410; the match rate in
\* hundredths of a percent
generate_reconciliation(source_count, loaded, failed_n) ==
    [source_count |-> source_count, target_count |-> loaded, matched |-> loaded,
     unmatched |-> source_count - loaded, failed |-> failed_n,
     match_rate_percent |-> IF source_count > 0 THEN RoundedPercent(loaded, source_count)
                            ELSE 0,
     status |-> IF loaded = source_count THEN "RECONCILED" ELSE "DISCREPANCY"]

\* what adapter.load_data does with n records: it raises, or it loads some
\* of them and fails the others (fake_sap.py, lines 296-346)
LoadOutcomes(n) ==
    [exc : {"raise"}, text : ExceptionTexts, records_loaded : {0}, records_failed : {0}]
    \cup {[exc |-> None, text |-> "", records_loaded |-> a, records_failed |-> n - a] :
            a \in 0..n}

\* MigrationPlugin.execute, lines 77-182
migration_execute(config, draw, load) ==
    LET total_records == extract_source_data(config, draw)
        attempt == <<[unit |-> 1, kind |-> "load_data",
                      outcome |-> IF load.exc # None THEN "raise"
                                  ELSE IF load.records_failed = 0 THEN "success"
                                  ELSE "failure"]>>
    IN  IF load.exc # None
        THEN HandlerReturn(
                 JobResult(<<"migr", config.id>>, MIGRATION, FAILED, 0, 0, 0, load.text),
                 None, attempt)
        ELSE HandlerReturn(
                 JobResult(<<"migr", config.id>>, MIGRATION,
                           UnitsStatus(load.records_loaded, load.records_failed),
                           total_records, load.records_loaded, load.records_failed, None),
                 [key |-> <<"migration", config.id>>,
                  success |-> load.records_failed = 0,
                  records_loaded |-> load.records_loaded,
                  records_failed |-> load.records_failed,
                  reconciliation |-> generate_reconciliation(
                      total_records, load.records_loaded, load.records_failed)],
                 attempt)

\* the payloads a handler is called with
HandlerJobs ==
    [type : {CUSTOMIZING}, config : [id : {ItemId(1)}, steps : SeqsUpTo(StepActions, MaxUnits)]]
    \cup [type : {MIGRATION}, config : [id : {ItemId(1)}, batch_size : BatchSizes]]
    \cup [type : {TESTING}, config : [id : {ItemId(1)}, cases : SeqsUpTo(CaseTypes, MaxUnits)]]

InitHandler ==
    /\ handler_job \in HandlerJobs
    /\ handler_result = NotCalled
    /\ model = Absent
    /\ plan = Absent
    /\ order = None
    /\ pc = "handler"
    /\ registry = JobType
    /\ adapter_type = "custom"
    /\ ExecutorInit
    /\ ParserIdle
    /\ RunIdle

CustomizingExecute ==
    /\ handler_result = NotCalled
    /\ handler_job.type = CUSTOMIZING
    /\ \E adapter \in [1..Len(handler_job.config.steps) -> AdapterOutcomes] :
         handler_result' = customizing_execute(handler_job.config, adapter)
    /\ UNCHANGED <<model, plan, order, pc, registry, adapter_type, execVars,
                   parseVars, runVars, handler_job>>

MigrationExecute ==
    /\ handler_result = NotCalled
    /\ handler_job.type = MIGRATION
    /\ \E draw \in RandintDraws :
         \E load \in LoadOutcomes(extract_source_data(handler_job.config, draw)) :
            handler_result' = migration_execute(handler_job.config, draw, load)
    /\ UNCHANGED <<model, plan, order, pc, registry, adapter_type, execVars,
                   parseVars, runVars, handler_job>>

TestingExecute ==
    /\ handler_result = NotCalled
    /\ handler_job.type = TESTING
    /\ \E adapter \in [1..Len(handler_job.config.cases) -> AdapterOutcomes] :
         handler_result' = testing_execute(handler_job.config, adapter)
    /\ UNCHANGED <<model, plan, order, pc, registry, adapter_type, execVars,
                   parseVars, runVars, handler_job>>

NextHandler == CustomizingExecute \/ MigrationExecute \/ TestingExecute

SpecHandler == InitHandler /\ [][NextHandler]_vars

(***************************************************************************)
(* Properties of JobExecutor.execute (Spec).                               *)
(***************************************************************************)
Returned == pc = "returned"

\* the positions of job_results that hold a result of the job at position k
ResultsAt(k) == {a \in DOMAIN job_results : result_pos[a] = k}

HasResult(k) == ResultsAt(k) # {}

\* the first and the last result recorded for the job at position k
FirstResultAt(k) == job_results[CHOOSE a \in ResultsAt(k) : \A b \in ResultsAt(k) : a <= b]

LastResultAt(k) == job_results[CHOOSE a \in ResultsAt(k) : \A b \in ResultsAt(k) : b <= a]

\* every result recorded for a job after position k is SKIPPED, and once
\* execute has returned every such job has a result
LaterJobsSkipped(k) ==
    /\ \A b \in DOMAIN job_results :
          result_pos[b] > k => job_results[b].status = SKIPPED
    /\ Returned => \A m \in (k + 1)..Len(plan.jobs) : HasResult(m)

\* C1: fail-fast.  Once the result of the job at position k is FAILED, no job
\* at a later position gets any result other than SKIPPED, and when execute
\* returns every later job has its SKIPPED result.
C1_FailFast ==
    \A a \in DOMAIN job_results :
        job_results[a].status = FAILED => LaterJobsSkipped(result_pos[a])

C1_Witness ==
    /\ Returned
    /\ Len(plan.jobs) = 4
    /\ job_results[1].status = COMPLETED
    /\ job_results[2].status = FAILED
    /\ job_results[3].status = SKIPPED
    /\ job_results[4].status = SKIPPED

\* C2: in every returned Run Summary the three job counters add up to
\* total_jobs, and a skipped job implies a failed job.
C2_CountersAddUp ==
    Returned =>
        /\ summary.completed_jobs + summary.failed_jobs + summary.skipped_jobs
              = summary.total_jobs
        /\ summary.skipped_jobs > 0 => summary.failed_jobs >= 1

C2_Witness ==
    /\ Returned
    /\ summary.completed_jobs = 1
    /\ summary.failed_jobs = 1
    /\ summary.skipped_jobs = 2
    /\ \E e \in calls : e.op = "save_job_result raised"

\* C3: the returned Run Summary is COMPLETED exactly when no job failed and
\* no job was skipped, FAILED otherwise, and never EXECUTING.
C3_FinalStatus ==
    Returned =>
        /\ summary.status \in {COMPLETED, FAILED}
        /\ summary.status = COMPLETED
              <=> (summary.failed_jobs = 0 /\ summary.skipped_jobs = 0)
        /\ summary.status = COMPLETED
              <=> \A a \in DOMAIN summary.job_results :
                     summary.job_results[a].status = COMPLETED

C3_Witness ==
    /\ Returned
    /\ summary.status = FAILED
    /\ summary.failed_jobs = 1
    /\ summary.skipped_jobs = 0
    /\ summary.completed_jobs = 3

\* what str(e) is for an exception raised while a job is processed
JobExceptionText(op) ==
    CASE op = "validate raised" -> "validate raised"
      [] op = "execute raised" -> "execute raised"
      [] op = "save_job_result raised" -> "save_job_result raised"

JobExceptionOps == {"validate raised", "execute raised", "save_job_result raised"}

\* C4: when validate, execute or save_job_result raises while job k is
\* processed, the exception does not escape execute: the last result recorded
\* for job k is FAILED with the exception text as its error message, the stop
\* flag is set, every later job is SKIPPED, and the summary that execute
\* returns is FAILED.
C4_JobExceptionsContained ==
    /\ raised \notin {JobExceptionText(op) : op \in JobExceptionOps}
    /\ \A e \in calls :
          e.op \in JobExceptionOps =>
             /\ HasResult(e.pos)
             /\ LastResultAt(e.pos).status = FAILED
             /\ LastResultAt(e.pos).error_message = JobExceptionText(e.op)
             /\ stop_execution
             /\ LaterJobsSkipped(e.pos)
             /\ Returned => summary.status = FAILED

C4_Witness ==
    /\ Returned
    /\ Len(plan.jobs) = 4
    /\ Event("execute raised", 2) \in calls
    /\ summary.status = FAILED
    /\ summary.skipped_jobs = 2

\* C5: when validate returns a non-empty error list for a job, execute of the
\* handler is not invoked for that job, the result _execute_job produces for
\* it is FAILED with all three record counts zero and a message made of all
\* the validation errors, every later job is SKIPPED and the returned summary
\* is FAILED.
C5_ValidationRejects ==
    \A v \in validated :
        v.errors # <<>> =>
           /\ Event("execute", v.pos) \notin calls
           /\ HasResult(v.pos)
           /\ FirstResultAt(v.pos).status = FAILED
           /\ FirstResultAt(v.pos).records_processed = 0
           /\ FirstResultAt(v.pos).records_success = 0
           /\ FirstResultAt(v.pos).records_failed = 0
           /\ FirstResultAt(v.pos).error_message = <<"Validation failed", v.errors>>
           /\ LaterJobsSkipped(v.pos)
           /\ Returned => summary.status = FAILED

C5_Witness ==
    /\ Returned
    /\ Len(plan.jobs) >= 3
    /\ \E v \in validated : v.pos = 1 /\ v.errors # <<>>
    /\ plan.jobs[1].type = CUSTOMIZING
    /\ summary.skipped_jobs = Len(plan.jobs) - 1

HandlerOps == {"validate", "execute", "adapter_call", "save_job_result"}

\* C6: for a job that ends SKIPPED neither validate nor execute was invoked,
\* no adapter call was made, no artifact was persisted, and its error message
\* is the one fixed text.
C6_SkippedUntouched ==
    \A a \in DOMAIN job_results :
        job_results[a].status = SKIPPED =>
           /\ \A e \in calls : e.pos = result_pos[a] => e.op \notin HandlerOps
           /\ \A c \in DOMAIN contexts : contexts[c].pos # result_pos[a]
           /\ \A q \in DOMAIN files : files[q] # result_pos[a]
           /\ job_results[a].artifacts = <<>>
           /\ job_results[a].error_message = SKIPPED_MESSAGE

C6_Witness ==
    /\ Returned
    /\ summary.skipped_jobs = 3
    /\ progress_callback # None
    /\ DOMAIN files # {}

\* C7: when a category has no registered handler, execute fails with
\* ExecutionError before any adapter is created or connected, before any
\* validate or execute of a handler, and before anything is persisted.
C7_MissingHandlerFailsFirst ==
    (registry # JobType /\ pc # "ready") =>
        /\ pc = "raised"
        /\ raised = "ExecutionError: Plugin not found"
        /\ adapters = EmptyMap
        /\ env_calls = {}
        /\ calls = {}
        /\ validated = {}
        /\ contexts = <<>>
        /\ job_results = <<>>
        /\ files = EmptyMap
        /\ stored_summary = Absent

C7_Witness ==
    /\ pc = "raised"
    /\ registry = {CUSTOMIZING, MIGRATION}
    /\ Len(plan.jobs) = 4

\* C8: what a handler writes into the shared bag of its context while it
\* executes one job is in the bag of the context handed to the handler of
\* every later job of the run.
C8_SharedBagCarriesOver ==
    \A a, b \in DOMAIN contexts :
        a < b => contexts[a].shared_out \subseteq contexts[b].shared_in

(***************************************************************************)
(* Properties of the planner (SpecPlan).                                   *)
(***************************************************************************)
Ordered == pc = "ordered"

JobOf(jid) == CHOOSE j \in Range(plan.jobs) : j.id = jid

Occurrences(x, s) == Cardinality({k \in DOMAIN s : s[k] = x})

\* C9: get_job_order returns a permutation of the job ids of the plan (each
\* id exactly once, none missing) in which every job comes after all of its
\* declared prerequisites.
C9_OrderIsTopologicalPermutation ==
    Ordered =>
        /\ Len(order) = Len(plan.jobs)
        /\ \A k \in DOMAIN plan.jobs : Occurrences(plan.jobs[k].id, order) = 1
        /\ \A k \in DOMAIN order : \E j \in Range(plan.jobs) : j.id = order[k]
        /\ \A k \in DOMAIN plan.jobs :
              \A dep \in Range(plan.jobs[k].dependencies) :
                  /\ InSeq(dep, order)
                  /\ IndexOf(dep, order) < IndexOf(plan.jobs[k].id, order)

C9_Witness ==
    /\ Ordered
    /\ Len(model.packages) = 2
    /\ Len(model.objects) = 1
    /\ Len(model.suites) = 1
    /\ Len(order) = 4
    /\ plan.jobs[1].id[3] # plan.jobs[2].id[3]

PhaseRank(type) ==
    CASE type = CUSTOMIZING -> 1
      [] type = MIGRATION -> 2
      [] type = TESTING -> 3

\* C10: the order of get_job_order respects the three-phase barrier: every
\* customizing job before every migration and every testing job, every
\* migration job before every testing job, also when a phase is empty.
C10_PhaseBarrier ==
    Ordered =>
        \A a, b \in DOMAIN order :
            PhaseRank(JobOf(order[a]).type) < PhaseRank(JobOf(order[b]).type) => a < b

Planned == pc \in {"planned", "ordered"}

\* C11: create_plan returns a plan whose total_jobs equals the length of its
\* job list and the number of packages plus objects plus suites of the model.
C11_TotalJobs ==
    Planned =>
        /\ plan.total_jobs = Len(plan.jobs)
        /\ plan.total_jobs = JobCount(model)

C11_Witness ==
    /\ Planned
    /\ Len(model.packages) = 2
    /\ Len(model.objects) = 0
    /\ Len(model.suites) = 1
    /\ plan.total_jobs = 3

JobsOfType(p, type) == SelectSeq(p.jobs, LAMBDA j : j.type = type)

JobIds(jobs) == {jobs[k].id : k \in DOMAIN jobs}

\* C12: the declared dependencies of a plan are exactly: none for the first
\* customizing job and the customizing job immediately before it for each
\* further one; all customizing job ids for each migration job; all migration
\* job ids for each testing job.
C12_DeclaredDependencies ==
    Planned =>
        LET cust == JobsOfType(plan, CUSTOMIZING)
            migr == JobsOfType(plan, MIGRATION)
            test == JobsOfType(plan, TESTING)
        IN  /\ \A k \in DOMAIN cust :
                  cust[k].dependencies = IF k = 1 THEN <<>> ELSE <<cust[k - 1].id>>
            /\ \A k \in DOMAIN migr :
                  /\ Range(migr[k].dependencies) = JobIds(cust)
                  /\ Len(migr[k].dependencies) = Len(cust)
            /\ \A k \in DOMAIN test :
                  /\ Range(test[k].dependencies) = JobIds(migr)
                  /\ Len(test[k].dependencies) = Len(migr)

C12_Witness ==
    /\ Planned
    /\ Len(model.packages) = 2
    /\ Len(model.objects) = 1
    /\ Len(model.suites) = 1
    /\ Len(plan.jobs[3].dependencies) = 2
    /\ plan.jobs[4].dependencies = <<plan.jobs[3].id>>

\* what a job is planned for: its phase, its item and its target system
JobShape(job) == <<job.type, job.config.id, job.target_system>>

PlanShape(p) == [k \in DOMAIN p.jobs |-> JobShape(p.jobs[k])]

\* the declared items of the model, phase by phase
DeclaredShape(m) ==
    [k \in DOMAIN m.packages |-> <<CUSTOMIZING, m.packages[k].id, m.packages[k].target>>]
    \o [k \in DOMAIN m.objects |-> <<MIGRATION, m.objects[k].id, m.objects[k].target>>]
    \o [k \in DOMAIN m.suites |-> <<TESTING, m.suites[k].id, m.suites[k].target>>]

\* planning the model once more, with other uuid draws
Replanned == create_plan(model, [k \in 1..JobCount(model) |-> ExecUuid])

\* C13: the job list of a plan is in phase order, then declaration order, so
\* it is the same for every planning of the same model whatever uuids are
\* drawn, and every job's prerequisites stand at earlier positions of the
\* list than the job.
C13_EmissionOrder ==
    Planned =>
        /\ PlanShape(plan) = DeclaredShape(model)
        /\ PlanShape(Replanned) = PlanShape(plan)
        /\ \A k \in DOMAIN plan.jobs :
              \A dep \in Range(plan.jobs[k].dependencies) :
                  \E m \in 1..(k - 1) : plan.jobs[m].id = dep

C13_Witness ==
    /\ Planned
    /\ Len(model.packages) = 2
    /\ Len(model.objects) = 1
    /\ Len(model.suites) = 1
    /\ model.packages[1].target # model.packages[2].target
    /\ plan.jobs[1].id[3] # plan.jobs[2].id[3]

(***************************************************************************)
(* The adapter pool and the progress observer (Spec).                      *)
(***************************************************************************)
JobAt(k) == plan.jobs[contexts[k].pos]

\* C14: every handler execute call receives in its context an adapter whose
\* connect() call reported success; no handler is executed against an adapter
\* whose connect() returned false.
C14_ContextAdapterConnected ==
    \A k \in DOMAIN contexts : contexts[k].adapter.connected

\* C15: for each target system id of the plan exactly one adapter is created
\* and connect() is called on it exactly once; every job that targets the
\* system is given that adapter object, and the pool never holds two adapters
\* for one system id.
C15_OneAdapterPerSystem ==
    /\ DOMAIN adapters \subseteq TargetSystems
    /\ pc = "loop" => DOMAIN adapters = TargetSystems
    /\ \A s \in DOMAIN adapters :
          /\ adapters[s].system_id = s
          /\ adapters[s].serial = 1
          /\ adapters[s].connects = 1
    /\ \A k \in DOMAIN contexts :
          /\ contexts[k].adapter.system_id = JobAt(k).target_system
          /\ contexts[k].adapter.serial = 1
          /\ contexts[k].adapter.connects = 1
          /\ pc = "loop" => contexts[k].adapter = adapters[JobAt(k).target_system]
    /\ \A a, b \in DOMAIN contexts :
          JobAt(a).target_system = JobAt(b).target_system
              => contexts[a].adapter = contexts[b].adapter

C15_Witness ==
    /\ pc = "loop"
    /\ Cardinality(DOMAIN adapters) = 2
    /\ Len(contexts) >= 3
    /\ \E a, b \in DOMAIN contexts :
          a # b /\ JobAt(a).target_system = JobAt(b).target_system

\* C16: cleanup invokes disconnect() on every adapter of the pool even if
\* disconnect() of some of them raises; the failure is not escalated, execute
\* returns the same Run Summary, and afterwards the pool is empty and the
\* executor has no current run.
C16_CleanupDisconnectsAll ==
    Returned =>
        /\ \A s \in TargetSystems : Event("disconnect", s) \in env_calls
        /\ adapters = EmptyMap
        /\ current_run = None
        /\ raised = None
        /\ summary = FinalSummary
        /\ stored_summary = summary

C16_Witness ==
    /\ Returned
    /\ Cardinality(TargetSystems) = 2
    /\ \E s \in TargetSystems : Event("disconnect raised", s) \in env_calls
    /\ \E s \in TargetSystems : Event("disconnect raised", s) \notin env_calls

\* C17: progress reporting never affects control flow: whatever the observer
\* does, also when it raises, execute goes on as it does with no observer
\* set, so an exception of the observer never ends execute.
C17_ObserverNeverEndsExecute ==
    raised \notin {"progress callback raised", "progress raised"}

(***************************************************************************)
(* Properties of the parser (SpecParse).                                   *)
(***************************************************************************)
\* C20: every failure of parse carries a non-empty list of error messages,
\* whatever the kind of rejection; validate_only never returns false together
\* with an empty error list.
C20_FailuresCarryErrors ==
    /\ parse_result.exc = "ParserError" => parse_result.errors # <<>>
    /\ validate_result.exc = None /\ ~validate_result.is_valid
          => validate_result.errors # <<>>

(***************************************************************************)
(* Properties of the run life cycle (SpecRun).                             *)
(***************************************************************************)
StatusRank(st) ==
    CASE st = CREATED -> 1
      [] st = PLANNING -> 2
      [] st = EXECUTING -> 3
      [] st \in {COMPLETED, FAILED} -> 4

\* C18: the tracked status of a run moves along CREATED, PLANNING, EXECUTING,
\* then COMPLETED or FAILED: it never moves to an earlier state, no state is
\* entered twice, and a COMPLETED or FAILED run never changes status again.
C18_StatusMonotonic ==
    /\ \A a, b \in DOMAIN status_log :
          a < b => StatusRank(status_log[a]) < StatusRank(status_log[b])
    /\ active_status # None => /\ status_log # <<>>
                               /\ active_status = status_log[Len(status_log)]
    /\ pc \in {"ready", "adapters", "loop", "returned", "raised"} /\ status_log # <<>>
          => active_status = EXECUTING

C18_Witness ==
    /\ pc = "done"
    /\ status_log = <<CREATED, PLANNING, EXECUTING, FAILED>>
    /\ summary_writes = <<CREATED, FAILED, FAILED>>
    /\ Len(plan.jobs) >= 3

\* C19: the Run Summary of a run is persisted exactly once, at completion:
\* it is written to storage a single time, after all jobs have reached a
\* terminal status, and not before.
C19_SummaryPersistedOnce ==
    /\ Len(summary_writes) <= 1
    /\ summary_writes # <<>> => /\ pc \in {"returned", "raised", "done"}
                                /\ job_index > Len(plan.jobs)


\* C21: parse either returns a model or raises ParserError; no other kind of
\* failure escapes it, whatever the shape of the sections of the document.
C21_OnlyConfigurationErrors ==
    parse_result.exc \in {"not called", None, "ParserError"}

\* the stage whose check writes the message
ErrorStage(e) ==
    CASE e[1] \in {"Missing required section", "Section must be a mapping",
                   "project.name is required", "project.customer is required",
                   "landscape.systems must be a list",
                   "customizing.packages must be a list",
                   "migration.objects must be a list",
                   "testing.suites must be a list"} -> "structure"
      [] e[1] = "loc" -> "schema"
      [] OTHER -> "semantic"

\* C22: parse runs syntax, structure, schema and semantic validation in this
\* order and stops at the first stage that reports errors: every stage before
\* the last one run reported nothing, the parse failed iff the last stage run
\* failed, its errors are the errors of that stage and of its kind only, and
\* a model is returned only after all four stages.
C22_StagesInOrder ==
    parse_result.exc # "not called" =>
        LET n == Len(stages)
        IN  /\ n \in 1..Len(STAGES)
            /\ \A k \in 1..n : stages[k].stage = STAGES[k]
            /\ \A k \in 1..(n - 1) : ~stages[k].failed /\ stages[k].errors = <<>>
            /\ stages[n].failed <=> parse_result.exc # None
            /\ parse_result.exc = None => n = Len(STAGES)
            /\ parse_result.exc # None =>
                  /\ parse_result.errors = stages[n].errors
                  /\ \A k \in DOMAIN parse_result.errors :
                        ErrorStage(parse_result.errors[k]) = stages[n].stage

\* a document with a structure error whose packages share an id: parse stopped
\* after the structure stage and reports the structure error only
C22_Witness ==
    /\ document.structure # "ok"
    /\ HasDuplicateIds(document.packages)
    /\ parse_result.exc = "ParserError"
    /\ Len(stages) = 2
    /\ Len(parse_result.errors) >= 1


\* the document reaches the semantic stage of parse
WellShaped(doc) == doc.kind = "mapping" /\ doc.structure = "ok" /\ doc.schema = "ok"

ReferenceTexts ==
    {"Customizing package references unknown system",
     "Migration object references unknown system",
     "Test suite references unknown system"}

\* the cross-reference errors among the errors of a parse
ReferenceErrors(r) ==
    IF r.exc = "ParserError"
    THEN LET IsRef(e) == e[1] \in ReferenceTexts IN SelectSeq(r.errors, IsRef)
    ELSE <<>>

\* the packages, objects and suites of a document whose target is not the id
\* of a declared system, each as the error that names it
Offending(doc) ==
    LET Tag(items, text) == [k \in DOMAIN items |-> <<text, items[k].id, items[k].target>>]
        IsOff(e) == e[3] \notin Range(doc.systems)
    IN  SelectSeq(Tag(doc.packages, "Customizing package references unknown system")
                  \o Tag(doc.objects, "Migration object references unknown system")
                  \o Tag(doc.suites, "Test suite references unknown system"), IsOff)

DuplicateFree(doc) ==
    /\ ~HasDuplicateIds(doc.packages)
    /\ ~HasDuplicateIds(doc.objects)
    /\ ~HasDuplicateIds(doc.suites)

\* C23: the cross-reference check is enforced exactly when a system is
\* declared.  With an empty landscape parse reports no unknown system and
\* accepts every target; with a non-empty landscape it reports one error per
\* package, object or suite whose target is not a declared system id, and,
\* ids being distinct, fails iff there is such an item.
C23_CrossReference ==
    parse_result.exc # "not called" /\ WellShaped(document) =>
        /\ document.systems = <<>> =>
              /\ ReferenceErrors(parse_result) = <<>>
              /\ DuplicateFree(document) => parse_result.exc = None
        /\ document.systems # <<>> =>
              /\ ReferenceErrors(parse_result) = Offending(document)
              /\ DuplicateFree(document) =>
                    (parse_result.exc = "ParserError" <=> Offending(document) # <<>>)

\* a landscape with one system and two items that target another one: parse
\* failed with the two errors
C23_Witness ==
    /\ WellShaped(document)
    /\ Len(document.systems) = 1
    /\ Len(Offending(document)) = 2
    /\ parse_result.exc = "ParserError"
    /\ Len(parse_result.errors) = 2


\* two items of the collection share an id
SharedId(items) == \E i, j \in DOMAIN items : i # j /\ items[i].id = items[j].id

\* the errors of a parse that raised ParserError
ErrorSet(r) == IF r.exc = "ParserError" THEN Range(r.errors) ELSE {}

\* C24: a document in which two packages, two objects or two suites share an
\* id is never accepted, and when it reaches the semantic stage parse fails
\* with the duplicate-id error of that phase; the packages, the objects and
\* the suites of every model that parse returns have pairwise distinct ids.
C24_DuplicateIds ==
    parse_result.exc # "not called" =>
        /\ SharedId(document.packages) \/ SharedId(document.objects)
              \/ SharedId(document.suites) => parse_result.exc # None
        /\ WellShaped(document) =>
              /\ SharedId(document.packages) =>
                    <<"Duplicate customizing package IDs found">> \in ErrorSet(parse_result)
              /\ SharedId(document.objects) =>
                    <<"Duplicate migration object IDs found">> \in ErrorSet(parse_result)
              /\ SharedId(document.suites) =>
                    <<"Duplicate test suite IDs found">> \in ErrorSet(parse_result)
        /\ parse_result.exc = None =>
              /\ ~SharedId(parse_result.model.packages)
              /\ ~SharedId(parse_result.model.objects)
              /\ ~SharedId(parse_result.model.suites)

\* two migration objects share an id and parse failed naming the migration
\* phase
C24_Witness ==
    /\ WellShaped(document)
    /\ SharedId(document.objects)
    /\ ~SharedId(document.packages)
    /\ parse_result.exc = "ParserError"
    /\ parse_result.message = "Semantic validation failed"
    /\ <<"Duplicate migration object IDs found">> \in Range(parse_result.errors)


\* C25: the systems of the landscape of every model that parse returns have
\* pairwise distinct ids.
C25_SystemIdsDistinct ==
    parse_result.exc = None =>
        \A i, j \in DOMAIN parse_result.model.systems :
            parse_result.model.systems[i] = parse_result.model.systems[j] => i = j


(***************************************************************************)
(* Properties of the built-in handlers (SpecHandler).                      *)
(***************************************************************************)
HandlerCalled == handler_result.exc # "not called"

\* C26: the execute of a built-in handler never raises, and every result it
\* returns with status FAILED carries a non-empty error_message.
C26_FailedResultsCarryMessage ==
    HandlerCalled =>
        /\ handler_result.exc = None
        /\ handler_result.result.status = FAILED =>
              handler_result.result.error_message \notin {None, ""}


CustomizingCalled == HandlerCalled /\ handler_job.type = CUSTOMIZING

\* C27: the customizing handler attempts every step of the package in
\* declared order, whatever the earlier steps did; records_processed is the
\* number of steps and the sum of records_success and records_failed; the
\* result is COMPLETED when a step succeeded and FAILED only when every step
\* failed.
C27_EveryStepAttempted ==
    CustomizingCalled =>
        LET steps == handler_job.config.steps
            res == handler_result.result
            attempts == handler_result.attempts
        IN  /\ Len(attempts) = Len(steps)
            /\ \A k \in DOMAIN attempts :
                  attempts[k].unit = k /\ attempts[k].kind = steps[k]
            /\ res.records_processed = Len(steps)
            /\ res.records_processed = res.records_success + res.records_failed
            /\ res.records_success =
                  Cardinality({k \in DOMAIN attempts : attempts[k].outcome = "success"})
            /\ res.status \in {COMPLETED, FAILED}
            /\ res.records_success > 0 => res.status = COMPLETED
            /\ res.status = FAILED =>
                  /\ Len(steps) > 0
                  /\ \A k \in DOMAIN attempts : attempts[k].outcome # "success"

\* a package whose first step raised and whose second failed: the third ran
\* and succeeded, and the package is COMPLETED
C27_Witness ==
    /\ CustomizingCalled
    /\ Len(handler_result.attempts) = 3
    /\ handler_result.attempts[1].outcome = "raise"
    /\ handler_result.attempts[2].outcome = "failure"
    /\ handler_result.attempts[3].outcome = "success"
    /\ handler_result.result.status = COMPLETED
    /\ handler_result.result.records_failed = 2

MigrationReturned ==
    /\ HandlerCalled
    /\ handler_job.type = MIGRATION
    /\ handler_result.attempts[1].outcome # "raise"

\* C28: the reconciliation of a migration is RECONCILED with a match rate of
\* 100% when the loaded count equals the source count and DISCREPANCY when
\* the counts differ; the match rate is loaded/source in percent, to two
\* decimals.
C28_Reconciliation ==
    MigrationReturned =>
        LET rec == handler_result.shared.reconciliation
            source == rec.source_count
            loaded == rec.target_count
            rate == rec.match_rate_percent
        IN  /\ loaded = source => rec.status = "RECONCILED" /\ rate = 10000
            /\ loaded # source => rec.status = "DISCREPANCY"
            /\ source > 0 =>
                  /\ 2 * (rate * source - loaded * 10000) <= source
                  /\ 2 * (loaded * 10000 - rate * source) <= source


(***************************************************************************)
(* Properties of the create_run request (SpecRun).                         *)
(***************************************************************************)
Rejected == parse_result.exc \notin {"not called", None}

\* C29: a document that parse rejects never starts a run: the request ends
\* rejected, and no run state is registered, no plan is made, no background
\* execution runs and nothing is written to storage, then or later.
C29_RejectedBeforeSideEffects ==
    Rejected =>
        /\ pc = "rejected"
        /\ active_status = None
        /\ status_log = <<>>
        /\ plan = Absent
        /\ summary = Absent
        /\ current_run = None
        /\ stored_summary = Absent
        /\ summary_writes = <<>>
        /\ files = EmptyMap
        /\ calls = {}
        /\ env_calls = {}

\* a request whose document has a structure error has been rejected
C29_Witness ==
    /\ pc = "rejected"
    /\ parse_result.exc = "ParserError"
    /\ parse_result.message = "Configuration validation failed"
    /\ active_status = None


(***************************************************************************)
(* Properties of validate_only (SpecParse).                                *)
(***************************************************************************)
BothCalled == parse_result.exc # "not called" /\ validate_result.exc # "not called"

CountStatus(results, st) == Cardinality({k \in DOMAIN results : results[k].status = st})

\* the positions in the plan of the jobs the job at position k depends on
DependencyPositions(k) ==
    {j \in DOMAIN plan.jobs : plan.jobs[j].id \in Range(plan.jobs[k].dependencies)}

\* the job at position j has a result, and every result it has is COMPLETED
CompletedAt(j) ==
    /\ HasResult(j)
    /\ \A a \in ResultsAt(j) : job_results[a].status = COMPLETED

PhaseBefore(t) ==
    IF t = MIGRATION THEN {CUSTOMIZING} ELSE IF t = TESTING THEN {MIGRATION} ELSE {}

\* C32: the execute of a handler is invoked for a job only when every job in
\* its dependency list has a COMPLETED result in this run: every dependency
\* is a job of the plan, no migration job runs unless every customizing job
\* completed, and no testing job runs unless every migration job completed.
C32_DependenciesCompletedFirst ==
    \A e \in calls :
        e.op = "execute" =>
           /\ Cardinality(DependencyPositions(e.pos))
                 = Len(plan.jobs[e.pos].dependencies)
           /\ \A j \in DependencyPositions(e.pos) : j < e.pos /\ CompletedAt(j)
           /\ \A j \in DOMAIN plan.jobs :
                 plan.jobs[j].type \in PhaseBefore(plan.jobs[e.pos].type)
                    => CompletedAt(j)

C32_Witness ==
    /\ Returned
    /\ Len(plan.jobs) = 4
    /\ plan.jobs[3].type = MIGRATION
    /\ Len(plan.jobs[3].dependencies) = 2
    /\ plan.jobs[4].type = TESTING
    /\ Len(plan.jobs[4].dependencies) = 1
    /\ Event("execute", 3) \in calls
    /\ Event("execute", 4) \in calls
    /\ job_results[4].status = FAILED

\* C33: the summary execute returns holds exactly one result per planned job,
\* in planned order, and the numbers of COMPLETED, FAILED and SKIPPED results
\* are the three job counters.
C33_OneResultPerJob ==
    Returned =>
        /\ Len(summary.job_results) = summary.total_jobs
        /\ \A k \in DOMAIN summary.job_results : result_pos[k] = k
        /\ CountStatus(summary.job_results, COMPLETED) = summary.completed_jobs
        /\ CountStatus(summary.job_results, FAILED) = summary.failed_jobs
        /\ CountStatus(summary.job_results, SKIPPED) = summary.skipped_jobs

\* C34: the artifact paths of the job results of a run are pairwise distinct,
\* so no job's file is overwritten by the result of another job.
C34_ArtifactPathsDistinct ==
    Returned =>
        \A i, j \in DOMAIN summary.artifacts :
            summary.artifacts[i] = summary.artifacts[j] => i = j

\* C35: every result of the summary carries the id of the planned job it
\* belongs to.
C35_ResultCarriesJobId ==
    Returned =>
        \A k \in DOMAIN summary.job_results :
            summary.job_results[k].job_id = plan.jobs[result_pos[k]].id

\* C36: when execute has ended, by returning or by raising, every adapter
\* that was connected has been disconnected and the adapter pool is empty.
C36_PoolEmptyOnExit ==
    pc \in {"returned", "raised"} =>
        /\ adapters = EmptyMap
        /\ \A e \in env_calls :
               e.op = "connect" => Event("disconnect", e.pos) \in env_calls

(***************************************************************************)
(* Further properties of the migration handler (SpecHandler).              *)
(***************************************************************************)
\* C40: a migration result is COMPLETED only if at least one record was
\* loaded; a migration that loaded no record is FAILED.
C40_CompletedNeedsLoadedRecord ==
    MigrationReturned =>
        /\ handler_result.result.status = COMPLETED =>
               handler_result.result.records_success > 0
        /\ handler_result.result.records_success = 0 =>
               handler_result.result.status = FAILED

(***************************************************************************)
(* Further properties of the run life cycle (SpecRun).                     *)
(***************************************************************************)
\* C37: once the run has been created in storage, a tracked status of
\* COMPLETED or FAILED is also the status of the persisted summary; a failed
\* run does not leave the persisted summary in status CREATED.
C37_PersistedStatusFollows ==
    (active_status \in {COMPLETED, FAILED} /\ summary_writes # <<>>) =>
        summary_writes[Len(summary_writes)] = active_status

\* the run has been scheduled by create_run and its background task has not
\* ended yet
InProgress == pc \in {"scheduled", "ready", "adapters", "loop", "returned", "raised"}

\* C38: a delete request never removes the active_runs entry of a run that is
\* still in progress, and the background task never fails because its entry
\* is gone.
C38_EntryKeptWhileInProgress ==
    /\ InProgress => active_status # None
    /\ pc # "task failed"

C39_RunTerminates ==
    (pc = "scheduled") ~> (active_status \in {COMPLETED, FAILED})

C39_Witness ==
    /\ pc = "done"
    /\ status_log = <<CREATED, PLANNING, EXECUTING, COMPLETED>>
    /\ Len(plan.jobs) >= 2
    /\ summary.completed_jobs = Len(plan.jobs)


====
